---- MODULE Spec2Model ----
(***************************************************************************)
(* BlockTerm session manager (backend/internal/session): the Manager's     *)
(* session table, the per-session lifecycle state, the output pump         *)
(* (readOutput), the exit watcher (monitorProcess) and the public          *)
(* operations, as interleaved lock-delimited steps.                        *)
(*                                                                         *)
(* Granularity: every critical section of m.mu, session.mu and             *)
(* session.outputMu is one atomic step; the code between two critical      *)
(* sections of one call touches only locals.  The pump's fan-out holds     *)
(* outputMu.RLock over a loop of subscriber writes and is modelled one     *)
(* write per step with the lock held.                                      *)
(***************************************************************************)
EXTENDS Integers, Sequences, FiniteSets, TLC

\* ---- bounds of the model ----
MaxSessions == 2
MaxStarts == 1
MaxFeeds == 3
MaxPairFeeds == 2
MaxAddBlocks == 2
MaxBlockFeeds == 2
MaxChunks == 2
MaxWriters == 2
MaxTempFiles == 2
MaxShells == 2
MaxPrinted == 6

SessionIds == 1..MaxSessions
Writers == 1..MaxWriters
Callers == {"c1", "c2"}

\* sizes a caller may pass as cols/rows (int in SessionOptions)
SizeArgs == {<<0, 1>>, <<1, 0>>, <<-1, 1>>, <<1, -1>>, <<1, 1>>}
ResizeArgs == {<<2, 2>>, <<3, 2>>}
ShellArgs == {"bash", "fish"}

\* SessionState constants (models.go); "unborn" is a session object that
\* StartSession has not constructed yet.
StateRunning == "running"
StateClosed == "closed"
StateExited == "exited"

VARIABLES
  sessions,     \* Manager.sessions: the ids present in the live table
  nextId,       \* next fresh session id (uuid.New)
  State,        \* Session.State
  Cols, Rows,   \* Session.Cols, Session.Rows
  PTY,          \* Session.PTY field: "nil" or "fd"
  ptyCloses,    \* number of Close() calls made on the session's pty
  kills,        \* number of Process.Kill() calls
  procAlive,    \* the child process is running
  initCleanup,  \* Session.initCleanup is non-nil
  cleanups,     \* number of invocations of the cleanup closure
  readers,      \* Session.readers: sequence of subscribed writers
  pumpPc, pumpBuf, pumpIdx, nread,   \* readOutput goroutine
  monPc,        \* monitorProcess goroutine
  recv,         \* per writer: chunks successfully written to it
  sinkClosed,   \* per writer: the sink has been closed by its owner
  produced,     \* per session: chunks the child has written to its side of the pty
  subAt,        \* per writer: the number of chunks read when it was subscribed
  call,         \* per caller: the call in flight (between two critical sections)
  ret,          \* the call that returned in the last step: result and effects
  \* the block parser of one terminal view (useBlocks.ts)
  stream,       \* the bytes the backend broadcasts, in order
  cuts,         \* the offsets in the stream at which the chunks received so far end
  rawBufferRef, fragmentRef, inBlockRef, activeBlockIdRef, activeBlockCommandRef,
  cwdRef, isFullscreen,
  blocks,       \* the blocks state: sequence of Block records
  blockContentsRef,   \* the Map id -> output text, as a function
  blockContents,      \* its mirror in React state, which blockData reads
  clock,        \* Date.now()
  recorded,     \* the recordCommand calls made so far
  tempFiles,    \* the files and directories under os.TempDir() made by the injector
  \* the interactive shells of one session that have sourced the init file (shells.go)
  hooks,        \* the branch of the script that installed the hooks: "none", "bash" or "zsh"
  depth,        \* the number of nested interactive shells running the hooks
  __blockterm_started,   \* per shell: the script's flag
  shellPc,      \* per shell: where its read-eval loop is
  lastStatus,   \* per shell: $?
  printed       \* what the hooks have printed on the pty, in order

sessVars == <<State, Cols, Rows, PTY, ptyCloses, kills, procAlive, initCleanup, cleanups>>
pumpVars == <<pumpPc, pumpBuf, pumpIdx, nread>>
outVars == <<readers, recv, sinkClosed>>
parseVars == <<stream, cuts, rawBufferRef, fragmentRef, inBlockRef, activeBlockIdRef, activeBlockCommandRef,
               cwdRef, isFullscreen, blocks, blockContentsRef, blockContents, clock, recorded>>
hookVars == <<hooks, depth, __blockterm_started, shellPc, lastStatus, printed>>
vars == <<sessions, nextId, sessVars, pumpVars, monPc, outVars, produced, subAt, call, ret, parseVars, tempFiles, hookVars>>

Idle == [op |-> "none", pc |-> "idle", id |-> 0, cols |-> 0, rows |-> 0, w |-> 0, todo |-> {}, snap |-> {}]

\* ret: op(id) returned res from its critical section `at`, having had the
\* effects fx; cols/rows are the sizes StartSession was called with
NoRet == [op |-> "none", id |-> 0, at |-> "none", res |-> "none", fx |-> {}, cols |-> 0, rows |-> 0]

Returns(op, id, at, res, fx) == ret' = [NoRet EXCEPT !.op = op, !.id = id, !.at = at, !.res = res, !.fx = fx]

InitManager ==
  /\ sessions = {}
  /\ nextId = 1
  /\ State = [s \in SessionIds |-> "unborn"]
  /\ Cols = [s \in SessionIds |-> 0]
  /\ Rows = [s \in SessionIds |-> 0]
  /\ PTY = [s \in SessionIds |-> "nil"]
  /\ ptyCloses = [s \in SessionIds |-> 0]
  /\ kills = [s \in SessionIds |-> 0]
  /\ procAlive = [s \in SessionIds |-> FALSE]
  /\ initCleanup = [s \in SessionIds |-> FALSE]
  /\ cleanups = [s \in SessionIds |-> 0]
  /\ readers = [s \in SessionIds |-> <<>>]
  /\ pumpPc = [s \in SessionIds |-> "none"]
  /\ pumpBuf = [s \in SessionIds |-> 0]
  /\ pumpIdx = [s \in SessionIds |-> 0]
  /\ nread = [s \in SessionIds |-> 0]
  /\ monPc = [s \in SessionIds |-> "none"]
  /\ recv = [w \in Writers |-> <<>>]
  /\ sinkClosed = [w \in Writers |-> FALSE]
  /\ produced = [s \in SessionIds |-> 0]
  /\ subAt = [w \in Writers |-> 0]
  /\ call = [c \in Callers |-> Idle]
  /\ ret = NoRet
  /\ tempFiles = {}
  /\ hooks = "none"
  /\ depth = 0
  /\ __blockterm_started = [i \in 1..MaxShells |-> 0]
  /\ shellPc = [i \in 1..MaxShells |-> "none"]
  /\ lastStatus = [i \in 1..MaxShells |-> 0]
  /\ printed = <<>>

\* useBlocks: the state of the hook when its session is set (the reset
\* effect); null is the empty tuple, currentPath defaults to "~"
currentPath == <<126>>

ResetState ==
  [rawBuffer |-> <<>>, fragment |-> <<>>, inBlock |-> FALSE, activeId |-> <<>>, activeCommand |-> <<>>,
   cwd |-> currentPath, fullscreen |-> FALSE, blocks |-> <<>>, contentsRef |-> <<>>, contents |-> <<>>,
   clock |-> 0, recorded |-> <<>>, pos |-> 0, readings |-> 0]

ParserReset ==
  /\ rawBufferRef = ResetState.rawBuffer
  /\ fragmentRef = ResetState.fragment
  /\ inBlockRef = ResetState.inBlock
  /\ activeBlockIdRef = ResetState.activeId
  /\ activeBlockCommandRef = ResetState.activeCommand
  /\ cwdRef = ResetState.cwd
  /\ isFullscreen = ResetState.fullscreen
  /\ blocks = ResetState.blocks
  /\ blockContentsRef = ResetState.contentsRef
  /\ blockContents = ResetState.contents
  /\ clock = ResetState.clock
  /\ recorded = ResetState.recorded

\* the backend with no terminal view attached
Init ==
  /\ InitManager
  /\ stream = <<>>
  /\ cuts = <<>>
  /\ ParserReset

\* ---- shells.go ----
\* getInitializationScript: "" for a shell name it does not know
\* a getInitializationScript that gives every other shell the POSIX hooks
getInitializationScript_PosixDefault(shellName) ==
  IF shellName \in {"pwsh", "powershell"} THEN "ps" ELSE "bashzsh"

getInitializationScript(shellName) ==
  IF shellName \in {"bash", "zsh"} THEN "bashzsh"
  ELSE IF shellName \in {"pwsh", "powershell"} THEN "ps"
  ELSE ""

\* shell paths as sequences of path elements: "bash", "/bin/zsh",
\* "/usr/bin/fish", "/opt/zsh/nu", "" ...
ShellPaths ==
  { <<"bash">>, <<"zsh">>, <<"pwsh">>, <<"powershell">>, <<"fish">>, <<"sh">>,
    <<"bin", "zsh">>, <<"usr", "bin", "fish">>, <<"opt", "zsh", "nu">>, <<>> }

\* filepath.Base: the last element of the path, "." for the empty path
Base(path) == IF path = <<>> THEN "." ELSE path[Len(path)]

\* the pattern createInitFile passes to os.CreateTemp
InitFilePattern(shellName) ==
  IF shellName = "bash" THEN "blockterm-bash-init-*.sh"
  ELSE IF shellName = "zsh" THEN "blockterm-zsh-init-*.zsh"
  ELSE IF shellName \in {"pwsh", "powershell"} THEN "blockterm-ps-init-*.ps1"
  ELSE "blockterm-shell-init-*.sh"

\* os.CreateTemp / os.MkdirTemp replace the * of the pattern by a string
\* that makes the name new
TempName(pattern, n) == [pattern |-> pattern, n |-> n]

\* createInitFile; n is the random part of the name, createOk and writeOk
\* the outcomes of os.CreateTemp and WriteString.  A nil cleanup is
\* [nil |-> TRUE]; a closure is described by the names it removes.
NilCleanup == [nil |-> TRUE, removes |-> {}]

createInitFile(shellName, initScript, n, createOk, writeOk) ==
  IF initScript = "" THEN [path |-> <<>>, cleanup |-> NilCleanup, err |-> FALSE, made |-> {}]
  ELSE IF ~createOk \/ ~writeOk THEN [path |-> <<>>, cleanup |-> NilCleanup, err |-> TRUE, made |-> {}]
  ELSE LET f == TempName(InitFilePattern(shellName), n)
       IN [path |-> <<f>>, cleanup |-> [nil |-> FALSE, removes |-> {f}], err |-> FALSE, made |-> {f}]

\* createZshZdotdir; zdotOk is the joint outcome of MkdirTemp, ReadFile and
\* WriteFile (a directory made before a failure is removed again)
createZshZdotdir(initFile, m, zdotOk) ==
  IF ~zdotOk THEN [dir |-> <<>>, cleanup |-> NilCleanup, err |-> TRUE, made |-> {}]
  ELSE LET d == TempName("blockterm-zdotdir-*", m)
       IN [dir |-> <<d>>, cleanup |-> [nil |-> FALSE, removes |-> {d}], err |-> FALSE, made |-> {d}]

\* prepareShellCommand: the returned path, args, cleanup and error, and the
\* names it has created; nil args are the empty sequence
prepareShellCommand(shellPath, n, m, createOk, writeOk, zdotOk) ==
  LET shellName == Base(shellPath)
      initScript == getInitializationScript(shellName)
      f == createInitFile(shellName, initScript, n, createOk, writeOk)
      z == createZshZdotdir(f.path, m, zdotOk)
  IN IF initScript = "" THEN [path |-> shellPath, args |-> <<>>, cleanup |-> NilCleanup, err |-> FALSE, made |-> {}]
     ELSE IF f.err THEN [path |-> <<>>, args |-> <<>>, cleanup |-> NilCleanup, err |-> TRUE, made |-> {}]
     ELSE IF f.path = <<>> THEN [path |-> shellPath, args |-> <<>>, cleanup |-> f.cleanup, err |-> FALSE, made |-> f.made]
     ELSE IF shellName = "bash"
       THEN [path |-> shellPath, args |-> <<"--rcfile", f.path>>, cleanup |-> f.cleanup, err |-> FALSE, made |-> f.made]
     ELSE IF shellName = "zsh"
       THEN IF ~z.err /\ z.dir # <<>>
              THEN [path |-> shellPath,
                    args |-> <<"-d", "-f", "--no-globalrcs", "-c", <<"ZDOTDIR=", z.dir, " exec zsh -i">> >>,
                    cleanup |-> [nil |-> FALSE, removes |-> f.cleanup.removes \cup z.cleanup.removes],
                    err |-> FALSE, made |-> f.made \cup z.made]
              ELSE [path |-> shellPath, args |-> <<"-c", <<"source ", f.path, "; exec zsh -i">> >>,
                    cleanup |-> f.cleanup, err |-> FALSE, made |-> f.made]
     ELSE IF shellName \in {"pwsh", "powershell"}
       THEN [path |-> shellPath, args |-> <<"-NoProfile", "-Command", <<". '", f.path, "'; $host.EnterNestedPrompt()">> >>,
             cleanup |-> f.cleanup, err |-> FALSE, made |-> f.made]
     ELSE [path |-> shellPath, args |-> <<"-c", <<". ", f.path, "; exec ", shellPath, " -i">> >>,
           cleanup |-> f.cleanup, err |-> FALSE, made |-> f.made]

\* the random parts not used by a name with this pattern
FreshParts(pattern) == {n \in 1..MaxTempFiles : TempName(pattern, n) \notin tempFiles}

\* ---- a call of prepareShellCommand(shellPath) ----
PrepareShellCommand(shellPath, createOk, writeOk, zdotOk) ==
  /\ \E n \in FreshParts(InitFilePattern(Base(shellPath))), m \in FreshParts("blockterm-zdotdir-*") :
       LET r == prepareShellCommand(shellPath, n, m, createOk, writeOk, zdotOk) IN
       /\ tempFiles' = tempFiles \cup r.made
       /\ ret' = [op |-> "prepareShellCommand", shell |-> shellPath, path |-> r.path, args |-> r.args,
                  cleanup |-> r.cleanup, err |-> r.err]
  /\ UNCHANGED <<sessions, nextId, sessVars, pumpVars, monPc, outVars, produced, subAt, call, parseVars, hookVars>>

\* ---- the cleanup closure of the last call is run (session.initCleanup()) ----
RunInitCleanup ==
  /\ ret.op = "prepareShellCommand"
  /\ ~ret.cleanup.nil
  /\ tempFiles' = tempFiles \ ret.cleanup.removes
  /\ ret' = NoRet
  /\ UNCHANGED <<sessions, nextId, sessVars, pumpVars, monPc, outVars, produced, subAt, call, parseVars, hookVars>>

\* The injector alone: shells are prepared and their cleanup closures run.
NextShell ==
  \/ \E shellPath \in ShellPaths, createOk \in BOOLEAN, writeOk \in BOOLEAN, zdotOk \in BOOLEAN :
       PrepareShellCommand(shellPath, createOk, writeOk, zdotOk)
  \/ RunInitCleanup

SpecShell == Init /\ [][NextShell]_vars

\* ---- Manager.StartSession ----
\* The size validation of StartSession: the error it returns, "" if none.
StartValidate(cols, rows) ==
  IF cols = 0 THEN "cols must be greater than 0"
  ELSE IF rows = 0 THEN "rows must be greater than 0"
  ELSE ""

\* StartSession returns an error after the effects fx
StartFail(cols, rows, fx) ==
  /\ ret' = [NoRet EXCEPT !.op = "StartSession", !.at = "start", !.res = "err", !.fx = fx,
                          !.cols = cols, !.rows = rows]
  /\ UNCHANGED <<sessions, nextId, sessVars, pumpVars, monPc, outVars, call>>
  /\ UNCHANGED <<produced, subAt, parseVars, tempFiles, hookVars>>

\* the session object with its pty, the table insert and the two goroutines
StartOk(cols, rows, script, fx) ==
  /\ nextId <= MaxSessions
  /\ LET id == nextId IN
     /\ nextId' = nextId + 1
     /\ State' = [State EXCEPT ![id] = StateRunning]
     /\ Cols' = [Cols EXCEPT ![id] = cols]
     /\ Rows' = [Rows EXCEPT ![id] = rows]
     /\ PTY' = [PTY EXCEPT ![id] = "fd"]
     /\ procAlive' = [procAlive EXCEPT ![id] = TRUE]
     /\ initCleanup' = [initCleanup EXCEPT ![id] = (script # "")]
     /\ sessions' = sessions \cup {id}
     /\ pumpPc' = [pumpPc EXCEPT ![id] = "check"]
     /\ monPc' = [monPc EXCEPT ![id] = "wait"]
     /\ ret' = [NoRet EXCEPT !.op = "StartSession", !.id = id, !.at = "start", !.res = "ok",
                             !.fx = fx \cup {"pty", "registered"}, !.cols = cols, !.rows = rows]
     /\ UNCHANGED <<ptyCloses, kills, cleanups, pumpBuf, pumpIdx, nread, outVars, call>>
  /\ UNCHANGED <<produced, subAt, parseVars, tempFiles, hookVars>>

\* StartSession with the table insert moved before pty.StartWithSize: a
\* failed spawn leaves the half-built session registered
StartSession_RegisterBeforePty(c, cols, rows, shell, injOk, ptyOk) ==
  /\ call[c].pc = "idle"
  /\ LET script == getInitializationScript(shell)
         tmp == IF script # "" THEN {"temp"} ELSE {}
     IN IF StartValidate(cols, rows) # "" THEN StartFail(cols, rows, {})
        ELSE IF script # "" /\ ~injOk THEN StartFail(cols, rows, {"injector"})
        ELSE IF ~ptyOk
          THEN /\ nextId <= MaxSessions
               /\ nextId' = nextId + 1
               /\ State' = [State EXCEPT ![nextId] = StateRunning]
               /\ Cols' = [Cols EXCEPT ![nextId] = cols]
               /\ Rows' = [Rows EXCEPT ![nextId] = rows]
               /\ initCleanup' = [initCleanup EXCEPT ![nextId] = (script # "")]
               /\ sessions' = sessions \cup {nextId}
               /\ ret' = [NoRet EXCEPT !.op = "StartSession", !.at = "start", !.res = "err",
                                       !.fx = {"injector"} \cup tmp, !.cols = cols, !.rows = rows]
               /\ UNCHANGED <<PTY, ptyCloses, kills, procAlive, cleanups, pumpVars, monPc, outVars, call>>
               /\ UNCHANGED <<produced, subAt, parseVars, tempFiles, hookVars>>
        ELSE StartOk(cols, rows, script, {"injector"} \cup tmp)

\* One step: everything before the table insert works on locals, on the
\* injector's temporary file and on the new pty.  injOk / ptyOk are the
\* outcomes of os.CreateTemp and pty.StartWithSize.
StartSession(c, cols, rows, shell, injOk, ptyOk) ==
  /\ call[c].pc = "idle"
  /\ LET script == getInitializationScript(shell)
         tmp == IF script # "" THEN {"temp"} ELSE {}
     IN IF StartValidate(cols, rows) # "" THEN StartFail(cols, rows, {})
        ELSE IF script # "" /\ ~injOk THEN StartFail(cols, rows, {"injector"})
        ELSE IF ~ptyOk THEN StartFail(cols, rows, {"injector"} \cup tmp)
        ELSE StartOk(cols, rows, script, {"injector"} \cup tmp)

\* ---- Manager.GetSession ----
GetSession(c, id) ==
  /\ call[c].pc = "idle"
  /\ Returns("GetSession", id, "lookup", IF id \in sessions THEN "ok" ELSE "err", {})
  /\ UNCHANGED <<sessions, nextId, sessVars, pumpVars, monPc, outVars, call>>
  /\ UNCHANGED <<produced, subAt, parseVars, tempFiles, hookVars>>

\* ---- Manager.CloseSession ----
\* CloseSession that treats an id it does not find as already closed
CloseSessionLookup_NotFoundOk(c, id) ==
  /\ call[c].pc = "idle"
  /\ IF id \notin sessions
       THEN /\ Returns("CloseSession", id, "lookup", "ok", {})
            /\ UNCHANGED <<sessions, call>>
       ELSE /\ sessions' = sessions \ {id}
            /\ call' = [call EXCEPT ![c] = [Idle EXCEPT !.op = "CloseSession", !.pc = "locked", !.id = id]]
            /\ ret' = NoRet
  /\ UNCHANGED <<nextId, sessVars, pumpVars, monPc, outVars>>
  /\ UNCHANGED <<produced, subAt, parseVars, tempFiles, hookVars>>

\* a CloseSession that leaves the id in the table
CloseSessionLookup_KeepsEntry(c, id) ==
  /\ call[c].pc = "idle"
  /\ IF id \notin sessions
       THEN /\ Returns("CloseSession", id, "lookup", "err", {})
            /\ UNCHANGED <<sessions, call>>
       ELSE /\ sessions' = sessions
            /\ call' = [call EXCEPT ![c] = [Idle EXCEPT !.op = "CloseSession", !.pc = "locked", !.id = id]]
            /\ ret' = NoRet
  /\ UNCHANGED <<nextId, sessVars, pumpVars, monPc, outVars>>
  /\ UNCHANGED <<produced, subAt, parseVars, tempFiles, hookVars>>

\* first critical section (m.mu): look the id up and delete it
CloseSessionLookup(c, id) ==
  /\ call[c].pc = "idle"
  /\ IF id \notin sessions
       THEN /\ Returns("CloseSession", id, "lookup", "err", {})
            /\ UNCHANGED <<sessions, call>>
       ELSE /\ sessions' = sessions \ {id}
            /\ call' = [call EXCEPT ![c] = [Idle EXCEPT !.op = "CloseSession", !.pc = "locked", !.id = id]]
            /\ ret' = NoRet
  /\ UNCHANGED <<nextId, sessVars, pumpVars, monPc, outVars>>
  /\ UNCHANGED <<produced, subAt, parseVars, tempFiles, hookVars>>

\* the effects of the second critical section (session.mu) on session s
CloseEffects(s) ==
  IF State[s] = StateClosed THEN {}
  ELSE (IF PTY[s] # "nil" THEN {"ptyClose"} ELSE {}) \cup {"kill"}
       \cup (IF initCleanup[s] THEN {"cleanup"} ELSE {})

CloseSessionBody(s) ==
  LET fx == CloseEffects(s) IN
  /\ State' = [State EXCEPT ![s] = StateClosed]
  /\ ptyCloses' = [ptyCloses EXCEPT ![s] = @ + (IF "ptyClose" \in fx THEN 1 ELSE 0)]
  /\ kills' = [kills EXCEPT ![s] = @ + (IF "kill" \in fx THEN 1 ELSE 0)]
  /\ procAlive' = [procAlive EXCEPT ![s] = IF "kill" \in fx THEN FALSE ELSE @]
  /\ cleanups' = [cleanups EXCEPT ![s] = @ + (IF "cleanup" \in fx THEN 1 ELSE 0)]
  /\ UNCHANGED <<Cols, Rows, PTY, initCleanup>>

\* a CloseSession that takes outputMu too, and so waits for the fan-out
CloseSessionLocked_WaitsForFanOut(c) ==
  /\ call[c].op = "CloseSession" /\ call[c].pc = "locked"
  /\ pumpPc[call[c].id] # "bcast"
  /\ CloseSessionBody(call[c].id)
  /\ Returns("CloseSession", call[c].id, "locked", "ok", CloseEffects(call[c].id))
  /\ call' = [call EXCEPT ![c] = Idle]
  /\ UNCHANGED <<sessions, nextId, pumpVars, monPc, outVars>>
  /\ UNCHANGED <<produced, subAt, parseVars, tempFiles, hookVars>>

CloseSessionLocked(c) ==
  /\ call[c].op = "CloseSession" /\ call[c].pc = "locked"
  /\ CloseSessionBody(call[c].id)
  /\ Returns("CloseSession", call[c].id, "locked", "ok", CloseEffects(call[c].id))
  /\ call' = [call EXCEPT ![c] = Idle]
  /\ UNCHANGED <<sessions, nextId, pumpVars, monPc, outVars>>
  /\ UNCHANGED <<produced, subAt, parseVars, tempFiles, hookVars>>

\* ---- Manager.Close ----
\* snapshot of the ids under m.mu.RLock
CloseSnapshot(c) ==
  /\ call[c].pc = "idle"
  /\ call' = [call EXCEPT ![c] = [Idle EXCEPT !.op = "Close", !.pc = "iter", !.todo = sessions, !.snap = sessions]]
  /\ ret' = NoRet
  /\ UNCHANGED <<sessions, nextId, sessVars, pumpVars, monPc, outVars>>
  /\ UNCHANGED <<produced, subAt, parseVars, tempFiles, hookVars>>

\* one iteration of the loop: CloseSession(id)'s first critical section, or
\* the return once every id has been visited
CloseIter(c) ==
  /\ call[c].op = "Close" /\ call[c].pc = "iter"
  /\ IF call[c].todo = {}
       THEN /\ Returns("Close", 0, "iter", "ok", {})
            /\ call' = [call EXCEPT ![c] = Idle]
            /\ UNCHANGED sessions
       ELSE \E id \in call[c].todo :
            /\ ret' = NoRet
            /\ IF id \notin sessions
                 THEN /\ call' = [call EXCEPT ![c].todo = @ \ {id}]
                      /\ UNCHANGED sessions
                 ELSE /\ sessions' = sessions \ {id}
                      /\ call' = [call EXCEPT ![c].todo = @ \ {id}, ![c].pc = "closing", ![c].id = id]
  /\ UNCHANGED <<nextId, sessVars, pumpVars, monPc, outVars>>
  /\ UNCHANGED <<produced, subAt, parseVars, tempFiles, hookVars>>

CloseIterLocked(c) ==
  /\ call[c].op = "Close" /\ call[c].pc = "closing"
  /\ CloseSessionBody(call[c].id)
  /\ ret' = NoRet
  /\ call' = [call EXCEPT ![c].pc = "iter", ![c].id = 0]
  /\ UNCHANGED <<sessions, nextId, pumpVars, monPc, outVars>>
  /\ UNCHANGED <<produced, subAt, parseVars, tempFiles, hookVars>>

\* ---- Manager.ResizeSession ----
ResizeSessionLookup(c, id, cols, rows) ==
  /\ call[c].pc = "idle"
  /\ IF id \notin sessions
       THEN /\ Returns("ResizeSession", id, "lookup", "err", {})
            /\ UNCHANGED call
       ELSE /\ call' = [call EXCEPT ![c] = [Idle EXCEPT !.op = "ResizeSession", !.pc = "locked",
                                              !.id = id, !.cols = cols, !.rows = rows]]
            /\ ret' = NoRet
  /\ UNCHANGED <<sessions, nextId, sessVars, pumpVars, monPc, outVars>>
  /\ UNCHANGED <<produced, subAt, parseVars, tempFiles, hookVars>>

\* ResizeSession without the check of session.State
ResizeSessionLocked_NoStateCheck(c, setsizeOk) ==
  /\ call[c].op = "ResizeSession" /\ call[c].pc = "locked"
  /\ LET s == call[c].id IN
     /\ Cols' = [Cols EXCEPT ![s] = call[c].cols]
     /\ Rows' = [Rows EXCEPT ![s] = call[c].rows]
     /\ IF PTY[s] # "nil"
          THEN Returns("ResizeSession", s, "locked", IF setsizeOk THEN "ok" ELSE "err", {"ioctl"})
          ELSE Returns("ResizeSession", s, "locked", "ok", {})
  /\ call' = [call EXCEPT ![c] = Idle]
  /\ UNCHANGED <<sessions, nextId, State, PTY, ptyCloses, kills, procAlive, initCleanup, cleanups,
                 pumpVars, monPc, outVars>>
  /\ UNCHANGED <<produced, subAt, parseVars, tempFiles, hookVars>>

\* under session.mu.Lock; setsizeOk is the outcome of pty.Setsize
ResizeSessionLocked(c, setsizeOk) ==
  /\ call[c].op = "ResizeSession" /\ call[c].pc = "locked"
  /\ LET s == call[c].id IN
     IF State[s] # StateRunning
       THEN /\ Returns("ResizeSession", s, "locked", "err", {})
            /\ UNCHANGED <<Cols, Rows>>
       ELSE /\ Cols' = [Cols EXCEPT ![s] = call[c].cols]
            /\ Rows' = [Rows EXCEPT ![s] = call[c].rows]
            /\ IF PTY[s] # "nil"
                 THEN Returns("ResizeSession", s, "locked", IF setsizeOk THEN "ok" ELSE "err", {"ioctl"})
                 ELSE Returns("ResizeSession", s, "locked", "ok", {})
  /\ call' = [call EXCEPT ![c] = Idle]
  /\ UNCHANGED <<sessions, nextId, State, PTY, ptyCloses, kills, procAlive, initCleanup, cleanups,
                 pumpVars, monPc, outVars>>
  /\ UNCHANGED <<produced, subAt, parseVars, tempFiles, hookVars>>

\* ---- Manager.WriteInput ----
WriteInputLookup(c, id) ==
  /\ call[c].pc = "idle"
  /\ IF id \notin sessions
       THEN /\ Returns("WriteInput", id, "lookup", "err", {})
            /\ UNCHANGED call
       ELSE /\ call' = [call EXCEPT ![c] = [Idle EXCEPT !.op = "WriteInput", !.pc = "locked", !.id = id]]
            /\ ret' = NoRet
  /\ UNCHANGED <<sessions, nextId, sessVars, pumpVars, monPc, outVars>>
  /\ UNCHANGED <<produced, subAt, parseVars, tempFiles, hookVars>>

\* WriteInput without the check of session.State
WriteInputLocked_NoStateCheck(c, writeOk) ==
  /\ call[c].op = "WriteInput" /\ call[c].pc = "locked"
  /\ LET s == call[c].id IN
     IF PTY[s] = "nil" THEN Returns("WriteInput", s, "locked", "err", {})
     ELSE Returns("WriteInput", s, "locked", IF writeOk THEN "ok" ELSE "err", {"write"})
  /\ call' = [call EXCEPT ![c] = Idle]
  /\ UNCHANGED <<sessions, nextId, sessVars, pumpVars, monPc, outVars>>
  /\ UNCHANGED <<produced, subAt, parseVars, tempFiles, hookVars>>

\* under session.mu.RLock; writeOk is the outcome of PTY.Write
WriteInputLocked(c, writeOk) ==
  /\ call[c].op = "WriteInput" /\ call[c].pc = "locked"
  /\ LET s == call[c].id IN
     IF State[s] # StateRunning THEN Returns("WriteInput", s, "locked", "err", {})
     ELSE IF PTY[s] = "nil" THEN Returns("WriteInput", s, "locked", "err", {})
     ELSE Returns("WriteInput", s, "locked", IF writeOk THEN "ok" ELSE "err", {"write"})
  /\ call' = [call EXCEPT ![c] = Idle]
  /\ UNCHANGED <<sessions, nextId, sessVars, pumpVars, monPc, outVars>>
  /\ UNCHANGED <<produced, subAt, parseVars, tempFiles, hookVars>>

\* ---- Manager.AddOutputWriter ----
\* every caller subscribes a sink of its own (ReceiveOutput makes a fresh
\* io.Pipe per call): the lowest writer no session and no call holds yet
\* the position of writer w in the subscriber list of s (0: not subscribed)
Pos(s, w) == IF \E i \in 1..Len(readers[s]) : readers[s][i] = w
               THEN CHOOSE i \in 1..Len(readers[s]) : readers[s][i] = w ELSE 0

Registered(w) == \E s \in SessionIds : \E i \in 1..Len(readers[s]) : readers[s][i] = w

FreshWriters == {w \in Writers : ~Registered(w) /\ \A c \in Callers : call[c].w # w}

AddOutputWriterLookup(c, id) ==
  /\ call[c].pc = "idle"
  /\ FreshWriters # {}
  /\ IF id \notin sessions
       THEN /\ Returns("AddOutputWriter", id, "lookup", "err", {})
            /\ UNCHANGED call
       ELSE /\ call' = [call EXCEPT ![c] = [Idle EXCEPT !.op = "AddOutputWriter", !.pc = "locked", !.id = id,
                             !.w = CHOOSE w \in FreshWriters : \A v \in FreshWriters : w <= v]]
            /\ ret' = NoRet
  /\ UNCHANGED <<sessions, nextId, sessVars, pumpVars, monPc, outVars>>
  /\ UNCHANGED <<produced, subAt, parseVars, tempFiles, hookVars>>

\* under session.outputMu.Lock, which the pump's fan-out (RLock) excludes
AddOutputWriterLocked(c) ==
  /\ call[c].op = "AddOutputWriter" /\ call[c].pc = "locked"
  /\ pumpPc[call[c].id] # "bcast"
  /\ readers' = [readers EXCEPT ![call[c].id] = Append(@, call[c].w)]
  /\ Returns("AddOutputWriter", call[c].id, "locked", "ok", {"subscribed"})
  /\ call' = [call EXCEPT ![c] = Idle]
  /\ subAt' = [subAt EXCEPT ![call[c].w] = nread[call[c].id]]
  /\ UNCHANGED <<sessions, nextId, sessVars, pumpVars, monPc, recv, sinkClosed, produced, parseVars, tempFiles, hookVars>>

\* ---- Service.ReceiveOutput: the owner of a sink closes it (pw.Close) ----
SinkClose(w) ==
  /\ Registered(w) /\ ~sinkClosed[w]
  /\ sinkClosed' = [sinkClosed EXCEPT ![w] = TRUE]
  /\ ret' = NoRet
  /\ UNCHANGED <<sessions, nextId, sessVars, pumpVars, monPc, readers, recv, call>>
  /\ UNCHANGED <<produced, subAt, parseVars, tempFiles, hookVars>>

\* the three exits of ReceiveOutput's select loop all close the pipe; this is
\* the ticker's: the session is found not Running
ReceiveOutputTick(w) ==
  /\ Registered(w) /\ ~sinkClosed[w]
  /\ \E s \in SessionIds : Pos(s, w) > 0 /\ State[s] # StateRunning
  /\ sinkClosed' = [sinkClosed EXCEPT ![w] = TRUE]
  /\ ret' = NoRet
  /\ UNCHANGED <<sessions, nextId, sessVars, pumpVars, monPc, readers, recv, call>>
  /\ UNCHANGED <<produced, subAt, parseVars, tempFiles, hookVars>>

\* ---- the child writes a chunk of output to its side of the pty ----
ChildWrite(s) ==
  /\ procAlive[s]
  /\ ptyCloses[s] = 0
  /\ produced[s] < MaxChunks
  /\ produced' = [produced EXCEPT ![s] = @ + 1]
  /\ ret' = NoRet
  /\ UNCHANGED <<sessions, nextId, sessVars, pumpVars, monPc, outVars, subAt, call, parseVars, tempFiles, hookVars>>

\* ---- Manager.readOutput (one goroutine per session) ----
\* loop head, under session.mu.RLock
PumpCheck(s) ==
  /\ pumpPc[s] = "check"
  /\ pumpPc' = [pumpPc EXCEPT ![s] = IF State[s] # StateRunning \/ PTY[s] = "nil" THEN "stopped" ELSE "read"]
  /\ ret' = NoRet
  /\ UNCHANGED <<sessions, nextId, sessVars, pumpBuf, pumpIdx, nread, monPc, outVars, call>>
  /\ UNCHANGED <<produced, subAt, parseVars, tempFiles, hookVars>>

\* a pty.Read that still returns buffered output after the pty was closed
PumpRead_AfterClose(s) ==
  /\ pumpPc[s] = "read"
  /\ nread[s] < produced[s]
  /\ nread' = [nread EXCEPT ![s] = @ + 1]
  /\ pumpBuf' = [pumpBuf EXCEPT ![s] = nread[s] + 1]
  /\ pumpIdx' = [pumpIdx EXCEPT ![s] = 1]
  /\ pumpPc' = [pumpPc EXCEPT ![s] = "bcast"]
  /\ ret' = NoRet
  /\ UNCHANGED <<sessions, nextId, sessVars, monPc, outVars, call>>
  /\ UNCHANGED <<produced, subAt, parseVars, tempFiles, hookVars>>

\* pty.Read returns the next chunk; chunks are numbered in the order read
PumpRead(s) ==
  /\ pumpPc[s] = "read"
  /\ ptyCloses[s] = 0
  /\ nread[s] < produced[s]
  /\ nread' = [nread EXCEPT ![s] = @ + 1]
  /\ pumpBuf' = [pumpBuf EXCEPT ![s] = nread[s] + 1]
  /\ pumpIdx' = [pumpIdx EXCEPT ![s] = 1]
  /\ pumpPc' = [pumpPc EXCEPT ![s] = "bcast"]
  /\ ret' = NoRet
  /\ UNCHANGED <<sessions, nextId, sessVars, monPc, outVars, call>>
  /\ UNCHANGED <<produced, subAt, parseVars, tempFiles, hookVars>>

\* pty.Read fails: the descriptor was closed, or the child is gone (EOF/EIO)
PumpReadError(s) ==
  /\ pumpPc[s] = "read"
  /\ ptyCloses[s] > 0 \/ (~procAlive[s] /\ nread[s] = produced[s])
  /\ pumpPc' = [pumpPc EXCEPT ![s] = "stopped"]
  /\ ret' = NoRet
  /\ UNCHANGED <<sessions, nextId, sessVars, pumpBuf, pumpIdx, nread, monPc, outVars, call>>
  /\ UNCHANGED <<produced, subAt, parseVars, tempFiles, hookVars>>

\* a fan-out that repeats the write to each subscriber
PumpWrite_WritesTwice(s) ==
  /\ pumpPc[s] = "bcast"
  /\ IF pumpIdx[s] <= Len(readers[s])
       THEN LET w == readers[s][pumpIdx[s]] IN
            /\ recv' = [recv EXCEPT ![w] = IF sinkClosed[w] THEN @ ELSE Append(Append(@, pumpBuf[s]), pumpBuf[s])]
            /\ pumpIdx' = [pumpIdx EXCEPT ![s] = @ + 1]
            /\ UNCHANGED <<pumpPc, pumpBuf>>
       ELSE /\ pumpPc' = [pumpPc EXCEPT ![s] = "check"]
            /\ pumpIdx' = [pumpIdx EXCEPT ![s] = 0]
            /\ pumpBuf' = [pumpBuf EXCEPT ![s] = 0]
            /\ UNCHANGED recv
  /\ ret' = NoRet
  /\ UNCHANGED <<sessions, nextId, sessVars, nread, monPc, readers, sinkClosed, call>>
  /\ UNCHANGED <<produced, subAt, parseVars, tempFiles, hookVars>>

\* a pump that gives up at the first subscriber write that fails
PumpWrite_StopsOnError(s) ==
  /\ pumpPc[s] = "bcast"
  /\ IF pumpIdx[s] <= Len(readers[s])
       THEN LET w == readers[s][pumpIdx[s]] IN
            IF sinkClosed[w]
              THEN /\ pumpPc' = [pumpPc EXCEPT ![s] = "stopped"]
                   /\ UNCHANGED <<recv, pumpIdx, pumpBuf>>
              ELSE /\ recv' = [recv EXCEPT ![w] = Append(@, pumpBuf[s])]
                   /\ pumpIdx' = [pumpIdx EXCEPT ![s] = @ + 1]
                   /\ UNCHANGED <<pumpPc, pumpBuf>>
       ELSE /\ pumpPc' = [pumpPc EXCEPT ![s] = "check"]
            /\ pumpIdx' = [pumpIdx EXCEPT ![s] = 0]
            /\ pumpBuf' = [pumpBuf EXCEPT ![s] = 0]
            /\ UNCHANGED recv
  /\ ret' = NoRet
  /\ UNCHANGED <<sessions, nextId, sessVars, nread, monPc, readers, sinkClosed, call>>
  /\ UNCHANGED <<produced, subAt, parseVars, tempFiles, hookVars>>

\* one iteration of the fan-out loop under outputMu.RLock (a write to a
\* closed sink fails and its error is dropped), or the RUnlock after it
PumpWrite(s) ==
  /\ pumpPc[s] = "bcast"
  /\ IF pumpIdx[s] <= Len(readers[s])
       THEN LET w == readers[s][pumpIdx[s]] IN
            /\ recv' = [recv EXCEPT ![w] = IF sinkClosed[w] THEN @ ELSE Append(@, pumpBuf[s])]
            /\ pumpIdx' = [pumpIdx EXCEPT ![s] = @ + 1]
            /\ UNCHANGED <<pumpPc, pumpBuf>>
       ELSE /\ pumpPc' = [pumpPc EXCEPT ![s] = "check"]
            /\ pumpIdx' = [pumpIdx EXCEPT ![s] = 0]
            /\ pumpBuf' = [pumpBuf EXCEPT ![s] = 0]
            /\ UNCHANGED recv
  /\ ret' = NoRet
  /\ UNCHANGED <<sessions, nextId, sessVars, nread, monPc, readers, sinkClosed, call>>
  /\ UNCHANGED <<produced, subAt, parseVars, tempFiles, hookVars>>

\* ---- the child process exits on its own ----
ProcessExit(s) ==
  /\ procAlive[s]
  /\ procAlive' = [procAlive EXCEPT ![s] = FALSE]
  /\ ret' = NoRet
  /\ UNCHANGED <<sessions, nextId, State, Cols, Rows, PTY, ptyCloses, kills, initCleanup, cleanups,
                 pumpVars, monPc, outVars, call>>
  /\ UNCHANGED <<produced, subAt, parseVars, tempFiles, hookVars>>

\* ---- Manager.monitorProcess (one goroutine per session) ----
\* a watcher that marks the session Exited whatever its state
MonitorMark_Unconditional(s) ==
  /\ monPc[s] = "wait"
  /\ ~procAlive[s]
  /\ State' = [State EXCEPT ![s] = StateExited]
  /\ monPc' = [monPc EXCEPT ![s] = "delete"]
  /\ ret' = NoRet
  /\ UNCHANGED <<sessions, nextId, Cols, Rows, PTY, ptyCloses, kills, procAlive, initCleanup, cleanups,
                 pumpVars, outVars, call>>
  /\ UNCHANGED <<produced, subAt, parseVars, tempFiles, hookVars>>

\* cmd.Wait() returns, then the critical section of session.mu
MonitorMark(s) ==
  /\ monPc[s] = "wait"
  /\ ~procAlive[s]
  /\ State' = [State EXCEPT ![s] = IF @ = StateRunning THEN StateExited ELSE @]
  /\ monPc' = [monPc EXCEPT ![s] = "delete"]
  /\ ret' = NoRet
  /\ UNCHANGED <<sessions, nextId, Cols, Rows, PTY, ptyCloses, kills, procAlive, initCleanup, cleanups,
                 pumpVars, outVars, call>>
  /\ UNCHANGED <<produced, subAt, parseVars, tempFiles, hookVars>>

\* the critical section of m.mu: delete(m.sessions, session.ID)
MonitorDelete(s) ==
  /\ monPc[s] = "delete"
  /\ sessions' = sessions \ {s}
  /\ monPc' = [monPc EXCEPT ![s] = "done"]
  /\ ret' = NoRet
  /\ UNCHANGED <<nextId, sessVars, pumpVars, outVars, call>>
  /\ UNCHANGED <<produced, subAt, parseVars, tempFiles, hookVars>>

\* ---- specifications ----
\* Lifecycle: the table, the session fields and the resources.  readOutput
\* writes none of these variables (it only reads State and PTY), so the pump
\* is left to SpecOut.
Next ==
  \/ \E c \in Callers, sz \in SizeArgs, sh \in ShellArgs, injOk \in BOOLEAN, ptyOk \in BOOLEAN :
        (nextId <= MaxStarts \/ ~ptyOk) /\ StartSession(c, sz[1], sz[2], sh, injOk, ptyOk)
  \/ \E c \in Callers, id \in SessionIds : GetSession(c, id)
  \/ \E c \in Callers, id \in SessionIds : CloseSessionLookup(c, id)
  \/ \E c \in Callers : CloseSessionLocked(c)
  \/ \E c \in Callers : CloseSnapshot(c)
  \/ \E c \in Callers : CloseIter(c)
  \/ \E c \in Callers : CloseIterLocked(c)
  \/ \E c \in Callers, id \in SessionIds, sz \in ResizeArgs : ResizeSessionLookup(c, id, sz[1], sz[2])
  \/ \E c \in Callers, ok \in BOOLEAN : ResizeSessionLocked(c, ok)
  \/ \E c \in Callers, id \in SessionIds : WriteInputLookup(c, id)
  \/ \E c \in Callers, ok \in BOOLEAN : WriteInputLocked(c, ok)
  \/ \E c \in Callers, id \in SessionIds : AddOutputWriterLookup(c, id)
  \/ \E c \in Callers : AddOutputWriterLocked(c)
  \/ \E s \in SessionIds : ProcessExit(s)
  \/ \E s \in SessionIds : MonitorMark(s)
  \/ \E s \in SessionIds : MonitorDelete(s)

Spec == Init /\ [][Next]_vars

\* Output: the pump and its subscribers, against the calls that run
\* concurrently with it.
NextOut ==
  \/ \E c \in Callers : nextId <= MaxStarts /\ StartSession(c, 1, 1, "fish", TRUE, TRUE)
  \/ \E c \in Callers, id \in SessionIds : CloseSessionLookup(c, id)
  \/ \E c \in Callers : CloseSessionLocked(c)
  \/ \E c \in Callers, id \in SessionIds : ResizeSessionLookup(c, id, 2, 2)
  \/ \E c \in Callers : ResizeSessionLocked(c, TRUE)
  \/ \E c \in Callers, id \in SessionIds : WriteInputLookup(c, id)
  \/ \E c \in Callers : WriteInputLocked(c, TRUE)
  \/ \E c \in Callers, id \in SessionIds : AddOutputWriterLookup(c, id)
  \/ \E c \in Callers : AddOutputWriterLocked(c)
  \/ \E w \in Writers : SinkClose(w)
  \/ \E s \in SessionIds : ChildWrite(s)
  \/ \E s \in SessionIds : PumpCheck(s)
  \/ \E s \in SessionIds : PumpRead(s)
  \/ \E s \in SessionIds : PumpReadError(s)
  \/ \E s \in SessionIds : PumpWrite(s)
  \/ \E s \in SessionIds : ProcessExit(s)
  \/ \E s \in SessionIds : MonitorMark(s)
  \/ \E s \in SessionIds : MonitorDelete(s)

SpecOut == Init /\ [][NextOut]_vars

\* Isolation: two sessions, each with its pump and its subscriber, against
\* the calls of the manager.
NextIso ==
  \/ \E c \in Callers : StartSession(c, 1, 1, "fish", TRUE, TRUE)
  \/ \E c \in Callers, id \in SessionIds : GetSession(c, id)
  \/ \E c \in Callers, id \in SessionIds : CloseSessionLookup(c, id)
  \/ \E c \in Callers : CloseSessionLocked(c)
  \/ \E c \in Callers, id \in SessionIds : AddOutputWriterLookup(c, id)
  \/ \E c \in Callers : AddOutputWriterLocked(c)
  \/ \E s \in SessionIds : ChildWrite(s)
  \/ \E s \in SessionIds : PumpCheck(s)
  \/ \E s \in SessionIds : PumpRead(s)
  \/ \E s \in SessionIds : PumpReadError(s)
  \/ \E s \in SessionIds : PumpWrite(s)

SpecIso == Init /\ [][NextIso]_vars

\* Shutdown of a session: the pump, the ReceiveOutput streams and the calls
\* that end them.  The goroutines of the pump and of the streams' tickers
\* are scheduled; a subscriber write is only sure to return once its pipe is
\* closed (io.Pipe: Write blocks until the data is read or the pipe closed).
NextStop ==
  \/ \E c \in Callers : nextId <= MaxStarts /\ StartSession(c, 1, 1, "fish", TRUE, TRUE)
  \/ \E c \in Callers, id \in SessionIds : CloseSessionLookup(c, id)
  \/ \E c \in Callers : CloseSessionLocked(c)
  \/ \E c \in Callers, id \in SessionIds : AddOutputWriterLookup(c, id)
  \/ \E c \in Callers : AddOutputWriterLocked(c)
  \/ \E w \in Writers : SinkClose(w)
  \/ \E w \in Writers : ReceiveOutputTick(w)
  \/ \E s \in SessionIds : ChildWrite(s)
  \/ \E s \in SessionIds : PumpCheck(s)
  \/ \E s \in SessionIds : PumpRead(s)
  \/ \E s \in SessionIds : PumpReadError(s)
  \/ \E s \in SessionIds : PumpWrite(s)
  \/ \E s \in SessionIds : ProcessExit(s)
  \/ \E s \in SessionIds : MonitorMark(s)
  \/ \E s \in SessionIds : MonitorDelete(s)

\* the write the pump is in returns for sure: its sink is closed, or the
\* fan-out loop is at its end
WriteReturns(s) ==
  /\ pumpPc[s] = "bcast"
  /\ pumpIdx[s] > Len(readers[s]) \/ sinkClosed[readers[s][pumpIdx[s]]]

SpecStop ==
  /\ Init /\ [][NextStop]_vars
  /\ \A s \in SessionIds :
       /\ WF_vars(PumpCheck(s))
       /\ WF_vars(PumpRead(s))
       /\ WF_vars(PumpReadError(s))
       /\ WF_vars(WriteReturns(s) /\ PumpWrite(s))
  /\ \A w \in Writers : WF_vars(ReceiveOutputTick(w))

\* ======================================================================
\* The block parser of the terminal view (frontend/src/ui/hooks/useBlocks.ts
\* and frontend/src/ui/lib/utils.ts).  Text is a sequence of character
\* codes; positions are JavaScript's zero-based offsets, so text[p + 1] is
\* the character at offset p.
\* ======================================================================
BEL == 7
BS == 8
LF == 10
CR == 13
ESC == 27
REPLACEMENT == 65533

\* "<<<BLOCKTERM:START>>>"
MARKER_START == <<60, 60, 60, 66, 76, 79, 67, 75, 84, 69, 82, 77, 58, 83, 84, 65, 82, 84, 62, 62, 62>>
\* "<<<BLOCKTERM:END exit="
MARKER_END_PREFIX ==
  <<60, 60, 60, 66, 76, 79, 67, 75, 84, 69, 82, 77, 58, 69, 78, 68, 32, 101, 120, 105, 116, 61>>
\* ">>>", the end of MARKER_END_RE
MARKER_END_SUFFIX == <<62, 62, 62>>
\* "\x1b]7;" and "file://", the fixed parts of OSC7_RE
OSC7_INTRO == <<27, 93, 55, 59>>
OSC7_FILE == <<102, 105, 108, 101, 58, 47, 47>>
\* the alternate-screen sequences: ESC [ ? 1049 h, ESC [ ? 47 h, and their l forms
ALT_1049_H == <<27, 91, 63, 49, 48, 52, 57, 104>>
ALT_47_H == <<27, 91, 63, 52, 55, 104>>
ALT_1049_L == <<27, 91, 63, 49, 48, 52, 57, 108>>
ALT_47_L == <<27, 91, 63, 52, 55, 108>>

MinOf(S) == CHOOSE x \in S : \A y \in S : x <= y
MaxOf(S) == CHOOSE x \in S : \A y \in S : x >= y

\* String.prototype.slice(from) and slice(from, to) for 0 <= from, to
SliceFrom(s, from) == SubSeq(s, from + 1, Len(s))
Slice(s, from, to) == SubSeq(s, from + 1, IF to < Len(s) THEN to ELSE Len(s))

\* s has the (non-empty) needle at offset p
HasAt(s, p, needle) ==
  /\ p + Len(needle) <= Len(s)
  /\ s[p + 1] = needle[1]
  /\ SubSeq(s, p + 1, p + Len(needle)) = needle

\* String.prototype.indexOf(needle, from): -1 if absent
IndexOf(s, needle, from) ==
  LET at == {p \in from..(Len(s) - Len(needle)) : HasAt(s, p, needle)}
  IN IF at = {} THEN -1 ELSE MinOf(at)

Includes(s, needle) == IndexOf(s, needle, 0) # -1

EndsWith(s, suffix) == Len(suffix) <= Len(s) /\ SubSeq(s, Len(s) - Len(suffix) + 1, Len(s)) = suffix

\* the offset of the first character at or after p that is not in class
\* (SkipWhile) or that is in stops (SkipUntil); Len(s) if there is none
SkipWhile(s, p, class) ==
  LET stop == {q \in p..(Len(s) - 1) : s[q + 1] \notin class}
  IN IF stop = {} THEN Len(s) ELSE MinOf(stop)

SkipUntil(s, p, stops) ==
  LET stop == {q \in p..(Len(s) - 1) : s[q + 1] \in stops}
  IN IF stop = {} THEN Len(s) ELSE MinOf(stop)

\* character classes of the regular expressions
CsiParam == 48..63
CsiInter == 32..47
CsiFinal == 64..126
Esc2Final == 64..95
Digits == 48..57
\* WhiteSpace and LineTerminator of ECMAScript (String.prototype.trimEnd)
JsSpace == {9, 10, 11, 12, 13, 32, 160, 5760, 8232, 8233, 8239, 8287, 12288, 65279} \cup (8192..8202)
\* what "." does not match
JsLineTerminator == {10, 13, 8232, 8233}

\* /\x1b\[[0-?]*[ -/]*[@-~]/ at offset p: the offset after the match, -1 if none
CsiEnd(s, p) ==
  IF ~HasAt(s, p, <<ESC, 91>>) THEN -1
  ELSE LET q == SkipWhile(s, SkipWhile(s, p + 2, CsiParam), CsiInter)
       IN IF q < Len(s) /\ s[q + 1] \in CsiFinal THEN q + 1 ELSE -1

\* /\x1b\][^\x07\x1b]*(?:\x07|\x1b\\)/ at offset p
OscEnd(s, p) ==
  IF ~HasAt(s, p, <<ESC, 93>>) THEN -1
  ELSE LET q == SkipUntil(s, p + 2, {BEL, ESC})
       IN IF HasAt(s, q, <<BEL>>) THEN q + 1
          ELSE IF HasAt(s, q, <<ESC, 92>>) THEN q + 2
          ELSE -1

\* /\x1b[@-_]/ and /\x1b./ at offset p
Esc2End(s, p) ==
  IF p + 2 <= Len(s) /\ s[p + 1] = ESC /\ s[p + 2] \in Esc2Final THEN p + 2 ELSE -1

EscAnyEnd(s, p) ==
  IF p + 2 <= Len(s) /\ s[p + 1] = ESC /\ s[p + 2] \notin JsLineTerminator THEN p + 2 ELSE -1

\* a findTrailingPartialEscape that considers the last ESC wherever it is
findTrailingPartialEscape_NoWindow(s) ==
  LET escs == {p \in 0..(Len(s) - 1) : s[p + 1] = ESC}
      lastEsc == IF escs = {} THEN -1 ELSE MaxOf(escs)
      tail == SliceFrom(s, lastEsc)
  IN IF lastEsc = -1 THEN -1
     ELSE IF Len(tail) = 1 THEN lastEsc
     ELSE IF tail[2] = 91 THEN (IF CsiEnd(tail, 0) # -1 THEN -1 ELSE lastEsc)
     ELSE IF tail[2] = 93
       THEN (IF Includes(tail, <<BEL>>) \/ IndexOf(tail, <<ESC, 92>>, 2) # -1 THEN -1 ELSE lastEsc)
     ELSE -1

\* ---- utils.ts: findTrailingPartialEscape ----
findTrailingPartialEscape(s) ==
  LET escs == {p \in 0..(Len(s) - 1) : s[p + 1] = ESC}
      lastEsc == IF escs = {} THEN -1 ELSE MaxOf(escs)
      tail == SliceFrom(s, lastEsc)
  IN IF lastEsc = -1 \/ lastEsc < Len(s) - 20 THEN -1
     ELSE IF Len(tail) = 1 THEN lastEsc
     ELSE IF tail[2] = 91 THEN (IF CsiEnd(tail, 0) # -1 THEN -1 ELSE lastEsc)
     ELSE IF tail[2] = 93
       THEN (IF Includes(tail, <<BEL>>) \/ IndexOf(tail, <<ESC, 92>>, 2) # -1 THEN -1 ELSE lastEsc)
     ELSE -1

\* ---- utils.ts: cleanTerminalOutput ----
\* .replace(re, replacement) with the g flag, for a pattern whose matches
\* are found by End(s, p): the leftmost match is replaced, then the rest of
\* the string is searched from the end of that match
FirstAt(s, ends) ==
  LET at == {p \in 0..(Len(s) - 1) : s[p + 1] = ESC /\ ends[p] # -1} IN IF at = {} THEN -1 ELSE MinOf(at)

\* .replace(/\r\n/g, '\n')
RECURSIVE ReplaceCrLf(_)
ReplaceCrLf(s) ==
  LET p == IndexOf(s, <<CR, LF>>, 0)
  IN IF p = -1 THEN s ELSE Slice(s, 0, p) \o <<LF>> \o ReplaceCrLf(SliceFrom(s, p + 2))

\* .replace(/\r/g, '\n')
ReplaceCr(s) == [i \in 1..Len(s) |-> IF s[i] = CR THEN LF ELSE s[i]]

RECURSIVE StripCsi(_)
StripCsi(s) ==
  LET p == FirstAt(s, [q \in 0..(Len(s) - 1) |-> CsiEnd(s, q)])
  IN IF p = -1 THEN s ELSE Slice(s, 0, p) \o StripCsi(SliceFrom(s, CsiEnd(s, p)))

RECURSIVE StripOsc(_)
StripOsc(s) ==
  LET p == FirstAt(s, [q \in 0..(Len(s) - 1) |-> OscEnd(s, q)])
  IN IF p = -1 THEN s ELSE Slice(s, 0, p) \o StripOsc(SliceFrom(s, OscEnd(s, p)))

RECURSIVE StripEsc2(_)
StripEsc2(s) ==
  LET p == FirstAt(s, [q \in 0..(Len(s) - 1) |-> Esc2End(s, q)])
  IN IF p = -1 THEN s ELSE Slice(s, 0, p) \o StripEsc2(SliceFrom(s, Esc2End(s, p)))

RECURSIVE StripEscAny(_)
StripEscAny(s) ==
  LET p == FirstAt(s, [q \in 0..(Len(s) - 1) |-> EscAnyEnd(s, q)])
  IN IF p = -1 THEN s ELSE Slice(s, 0, p) \o StripEscAny(SliceFrom(s, EscAnyEnd(s, p)))

\* the backspace loop: out.pop() on '\b' (a no-op on an empty array), push
\* otherwise; when the loop meets the first '\b' out holds what precedes it
RECURSIVE ApplyBackspaces(_)
ApplyBackspaces(s) ==
  LET p == IndexOf(s, <<BS>>, 0)
  IN IF p = -1 THEN s
     ELSE ApplyBackspaces(Slice(s, 0, IF p = 0 THEN 0 ELSE p - 1) \o SliceFrom(s, p + 1))

\* s.split('\n').map(line => line.trimEnd()).join('\n'): a character goes
\* iff it is white space and only white space lies between it and the end
\* of its line
TrimLineEnds(s) ==
  LET kept(i) == s[i] \notin JsSpace \/ s[i] = LF
                 \/ (LET q == SkipWhile(s, i - 1, JsSpace \ {LF}) IN q < Len(s) /\ s[q + 1] # LF)
      marked == SelectSeq([i \in 1..Len(s) |-> <<s[i], kept(i)>>], LAMBDA x : x[2])
  IN [i \in 1..Len(marked) |-> marked[i][1]]

cleanTerminalOutput(raw) ==
  LET s1 == ReplaceCr(ReplaceCrLf(raw))
      s2 == StripEscAny(StripEsc2(StripOsc(StripCsi(s1))))
      s3 == ApplyBackspaces(s2)
  IN TrimLineEnds(s3)

\* ---- useBlocks.ts: extractOsc7Cwd ----
\* HexVal: the value of a hexadecimal digit, -1 for any other character
HexVal(c) ==
  IF c \in 48..57 THEN c - 48
  ELSE IF c \in 65..70 THEN c - 55
  ELSE IF c \in 97..102 THEN c - 87
  ELSE -1

Malformed == <<-1>>

\* decodeURIComponent for escapes below %80; Malformed stands for the
\* URIError it throws (an escape of a byte from 0x80 on is one unless it
\* starts a well-formed UTF-8 sequence, which no path of the model has)
RECURSIVE PercentDecode(_)
PercentDecode(s) ==
  LET p == IndexOf(s, <<37>>, 0) IN
  IF p = -1 THEN s
  ELSE IF p + 3 > Len(s) \/ HexVal(s[p + 2]) = -1 \/ HexVal(s[p + 3]) = -1 \/ HexVal(s[p + 2]) >= 8
    THEN Malformed
  ELSE LET rest == PercentDecode(SliceFrom(s, p + 3))
       IN IF rest = Malformed THEN rest
          ELSE Slice(s, 0, p) \o <<16 * HexVal(s[p + 2]) + HexVal(s[p + 3])>> \o rest

\* try { decodeURIComponent(m[1]) } catch { m[1] }
decodeURIComponentOrRaw(s) ==
  LET d == PercentDecode(s) IN IF d = Malformed THEN s ELSE d

\* the capture group ([^\x07\x1b]+)(?:\x07|\x1b\\) tried at offset p:
\* [end |-> offset after the terminator, path |-> the capture], end = -1 if
\* it does not match there
Osc7Capture(s, p) ==
  LET q == SkipUntil(s, p, {BEL, ESC})
      end == IF q = p THEN -1
             ELSE IF HasAt(s, q, <<BEL>>) THEN q + 1
             ELSE IF HasAt(s, q, <<ESC, 92>>) THEN q + 2
             ELSE -1
  IN [end |-> end, path |-> Slice(s, p, q)]

\* OSC7_RE tried at offset p.  With the optional group (file:\/\/[^\/]*)
\* present the greedy [^\/]* runs to the next "/" and backs off one
\* character at a time; without it the capture starts after "7;".
Osc7MatchAt(s, p) ==
  IF ~HasAt(s, p, OSC7_INTRO) THEN [end |-> -1, path |-> <<>>]
  ELSE LET h == p + Len(OSC7_INTRO) + Len(OSC7_FILE)
           slash == SkipUntil(s, h, {47})
           viaFile == IF HasAt(s, p + Len(OSC7_INTRO), OSC7_FILE)
                        THEN {e \in h..slash : Osc7Capture(s, e).end # -1} ELSE {}
       IN IF viaFile # {} THEN Osc7Capture(s, MaxOf(viaFile))
          ELSE Osc7Capture(s, p + Len(OSC7_INTRO))

\* the exec loop from offset 0: the capture of the last match, decoded;
\* <<>> (null) if there is no match
RECURSIVE Osc7Last(_, _)
Osc7Last(s, last) ==
  LET at == {p \in 0..(Len(s) - 1) : s[p + 1] = ESC /\ Osc7MatchAt(s, p).end # -1}
  IN IF at = {} THEN last
     ELSE LET m == Osc7MatchAt(s, MinOf(at))
          IN Osc7Last(SliceFrom(s, m.end), decodeURIComponentOrRaw(m.path))

extractOsc7Cwd(raw) == Osc7Last(raw, <<>>)

\* ---- useBlocks.ts: findTrailingFragment ----
\* a findTrailingFragment that holds back one character less
findTrailingFragment_OneShort(text, from, needle) ==
  LET tail == SliceFrom(text, from)
      maxLen == IF Len(needle) - 2 < Len(tail) THEN Len(needle) - 2 ELSE Len(tail)
      lens == {len \in 1..maxLen : EndsWith(tail, SubSeq(needle, 1, len))}
  IN IF lens = {} THEN -1 ELSE from + Len(tail) - MaxOf(lens)

findTrailingFragment(text, from, needle) ==
  LET tail == SliceFrom(text, from)
      maxLen == IF Len(needle) - 1 < Len(tail) THEN Len(needle) - 1 ELSE Len(tail)
      lens == {len \in 1..maxLen : EndsWith(tail, SubSeq(needle, 1, len))}
  IN IF lens = {} THEN -1 ELSE from + Len(tail) - MaxOf(lens)

\* ---- MARKER_END_RE.exec and parseInt ----
\* the match tried at offset p of s: [end |-> offset after ">>>", from, to
\* |-> the offsets of the capture (-?\d+)], end = -1 if there is none
EndMarkerAt(s, p) ==
  IF ~HasAt(s, p, MARKER_END_PREFIX) THEN [end |-> -1, from |-> 0, to |-> 0]
  ELSE LET a == p + Len(MARKER_END_PREFIX)
           d == IF HasAt(s, a, <<45>>) THEN a + 1 ELSE a
           e == SkipWhile(s, d, Digits)
       IN IF e > d /\ HasAt(s, e, MARKER_END_SUFFIX)
            THEN [end |-> e + Len(MARKER_END_SUFFIX), from |-> a, to |-> e]
            ELSE [end |-> -1, from |-> 0, to |-> 0]

\* exec: the leftmost match, [index |-> -1] if there is none
EndMarkerExec(s) ==
  LET at == {p \in 0..(Len(s) - Len(MARKER_END_PREFIX)) : EndMarkerAt(s, p).end # -1}
  IN IF at = {} THEN [index |-> -1, end |-> -1, from |-> 0, to |-> 0]
     ELSE LET p == MinOf(at) m == EndMarkerAt(s, p)
          IN [index |-> p, end |-> m.end, from |-> m.from, to |-> m.to]

\* parseInt(digits, 10) of an optional "-" and decimal digits
RECURSIVE DecimalValue(_, _)
DecimalValue(s, acc) ==
  IF s = <<>> THEN acc ELSE DecimalValue(Tail(s), 10 * acc + (Head(s) - 48))

parseInt(s) == IF Head(s) = 45 THEN 0 - DecimalValue(Tail(s), 0) ELSE DecimalValue(s, 0)

\* ---- new TextDecoder().decode(chunk) ----
\* UTF-8, each chunk decoded on its own: one- and two-byte sequences; a lead
\* byte without its continuation byte, and a stray continuation byte, decode
\* to U+FFFD.  (Lead bytes of three- and four-byte sequences are outside
\* the alphabet of the streams.)
RECURSIVE decode(_)
decode(bytes) ==
  LET high == {p \in 0..(Len(bytes) - 1) : bytes[p + 1] >= 128} IN
  IF high = {} THEN bytes
  ELSE LET p == MinOf(high) b == bytes[p + 1] IN
       IF b \in 194..223 /\ p + 2 <= Len(bytes) /\ bytes[p + 2] \in 128..191
         THEN Slice(bytes, 0, p) \o <<(b - 192) * 64 + (bytes[p + 2] - 128)>> \o decode(SliceFrom(bytes, p + 2))
         ELSE Slice(bytes, 0, p) \o <<REPLACEMENT>> \o decode(SliceFrom(bytes, p + 1))

\* ---- useBlocks.ts: the onOutput handler ----
\* The state of the hook as a record: the refs, the React state (updaters
\* applied in the order they are queued), the recordCommand calls, and, for
\* the handler in progress, the scan offset and the number of Date.now()
\* readings it has taken.
ParserState ==
  [rawBuffer |-> rawBufferRef, fragment |-> fragmentRef, inBlock |-> inBlockRef,
   activeId |-> activeBlockIdRef, activeCommand |-> activeBlockCommandRef,
   cwd |-> cwdRef, fullscreen |-> isFullscreen, blocks |-> blocks,
   contentsRef |-> blockContentsRef, contents |-> blockContents,
   clock |-> clock, recorded |-> recorded, pos |-> 0, readings |-> 0]

\* Map.prototype.set
MapSet(m, k, v) == [x \in (DOMAIN m) \cup {k} |-> IF x = k THEN v ELSE m[x]]

\* map.get(k) ?? ''
MapGet(m, k) == IF k \in DOMAIN m THEN m[k] ELSE <<>>

\* Date.now(): the clock does not run backwards; d1 is its advance since
\* the reading before this handler, d2 its advance between two readings
\* of one handler
ReadClock(st, d1, d2) ==
  [st EXCEPT !.clock = @ + (IF st.readings = 0 THEN d1 ELSE d2), !.readings = @ + 1]

\* the `blocks` the handler's closure captured: the subscription effect
\* runs once per sessionId, on a render whose blocks state is empty
EffectBlocks == <<>>

appendToBlock(st, content) ==
  IF content = <<>> \/ st.activeId = <<>> THEN st
  ELSE LET m == MapSet(st.contentsRef, st.activeId, MapGet(st.contentsRef, st.activeId) \o content)
       IN [st EXCEPT !.contentsRef = m, !.contents = m]

\* an auto-detected block that takes the cwd the view was created with
OpenAutoBlock_InitialCwd(st, d1, d2) ==
  LET t == ReadClock(st, d1, d2)
      id == <<"block-auto", t.clock>>
      autoBlock == [id |-> id, command |-> <<>>, cwd |-> currentPath, exitCode |-> <<>>]
  IN [t EXCEPT !.contentsRef = MapSet(@, id, <<>>), !.activeId = id, !.blocks = Append(@, autoBlock)]

\* lines 176-191: the auto-detected block
OpenAutoBlock(st, d1, d2) ==
  LET t == ReadClock(st, d1, d2)
      id == <<"block-auto", t.clock>>
      autoBlock == [id |-> id, command |-> <<>>, cwd |-> st.cwd, exitCode |-> <<>>]
  IN [t EXCEPT !.contentsRef = MapSet(@, id, <<>>), !.activeId = id, !.blocks = Append(@, autoBlock)]

\* lines 213-244: the END marker m was found in text.slice(st.pos).  closedAt
\* is used by recordCommand alone, so the clock is read only for it.
CloseBlock(st, text, m, d1, d2) ==
  LET remaining == SliceFrom(text, st.pos)
      exitCode == parseInt(Slice(remaining, m.from, m.to))
      s1 == appendToBlock(st, Slice(remaining, 0, m.index))
      closedId == s1.activeId
      closedCommand == s1.activeCommand
      s2 == IF closedCommand # <<>> THEN ReadClock(s1, d1, d2) ELSE s1
      bs == s2.blocks
      found == {i \in 1..Len(EffectBlocks) : EffectBlocks[i].id = closedId}
      closedCwd == IF found = {} THEN s2.cwd ELSE EffectBlocks[MinOf(found)].cwd
  IN [s2 EXCEPT
        !.blocks = [i \in 1..Len(bs) |-> IF bs[i].id = closedId THEN [bs[i] EXCEPT !.exitCode = <<exitCode>>]
                                         ELSE bs[i]],
        !.recorded = IF closedCommand # <<>>
                       THEN Append(@, [command |-> closedCommand, cwd |-> closedCwd,
                                       exitCode |-> exitCode, at |-> s2.clock])
                       ELSE @,
        !.activeId = <<>>, !.activeCommand = <<>>, !.inBlock = FALSE,
        !.pos = @ + m.end]

\* lines 159-246: the while loop over text
RECURSIVE Scan(_, _, _, _)
\* a loop that lets an END marker found outside a block close the pending
\* block
Scan_EndClosesPending(st, text, d1, d2) ==
  IF st.pos >= Len(text) THEN st
  ELSE IF ~st.inBlock
    THEN LET startIdx == IndexOf(text, MARKER_START, st.pos)
             endMatch == EndMarkerExec(SliceFrom(text, st.pos)) IN
         IF startIdx = -1
           THEN IF endMatch.index # -1 /\ st.activeId # <<>>
                  THEN Scan(CloseBlock(st, text, endMatch, d1, d2), text, d1, d2)
                  ELSE LET fragIdx == findTrailingFragment(text, st.pos, MARKER_START)
                       IN IF fragIdx # -1 THEN [st EXCEPT !.fragment = SliceFrom(text, fragIdx)] ELSE st
           ELSE LET s1 == IF st.activeId = <<>> THEN OpenAutoBlock(st, d1, d2) ELSE st
                IN Scan([s1 EXCEPT !.inBlock = TRUE, !.pos = startIdx + Len(MARKER_START)], text, d1, d2)
    ELSE LET remaining == SliceFrom(text, st.pos)
             endMatch == EndMarkerExec(remaining)
         IN IF endMatch.index = -1
              THEN LET fragIdx == findTrailingFragment(text, st.pos, MARKER_END_PREFIX)
                       contentEnd == IF fragIdx # -1 THEN fragIdx ELSE Len(text)
                       s1 == IF fragIdx # -1 THEN [st EXCEPT !.fragment = SliceFrom(text, fragIdx)] ELSE st
                   IN appendToBlock(s1, Slice(remaining, 0, contentEnd - st.pos))
              ELSE Scan(CloseBlock(st, text, endMatch, d1, d2), text, d1, d2)

Scan(st, text, d1, d2) ==
  IF st.pos >= Len(text) THEN st
  ELSE IF ~st.inBlock
    THEN LET startIdx == IndexOf(text, MARKER_START, st.pos) IN
         IF startIdx = -1
           THEN LET fragIdx == findTrailingFragment(text, st.pos, MARKER_START)
                IN IF fragIdx # -1 THEN [st EXCEPT !.fragment = SliceFrom(text, fragIdx)] ELSE st
           ELSE LET s1 == IF st.activeId = <<>> THEN OpenAutoBlock(st, d1, d2) ELSE st
                IN Scan([s1 EXCEPT !.inBlock = TRUE, !.pos = startIdx + Len(MARKER_START)], text, d1, d2)
    ELSE LET remaining == SliceFrom(text, st.pos)
             endMatch == EndMarkerExec(remaining)
         IN IF endMatch.index = -1
              THEN LET fragIdx == findTrailingFragment(text, st.pos, MARKER_END_PREFIX)
                       contentEnd == IF fragIdx # -1 THEN fragIdx ELSE Len(text)
                       s1 == IF fragIdx # -1 THEN [st EXCEPT !.fragment = SliceFrom(text, fragIdx)] ELSE st
                   IN appendToBlock(s1, Slice(remaining, 0, contentEnd - st.pos))
              ELSE Scan(CloseBlock(st, text, endMatch, d1, d2), text, d1, d2)

\* a handler that does not put the held-back fragment in front of the chunk
Prepare_ForgetsFragment(st, chunk) ==
  LET rawFull == st.rawBuffer \o decode(chunk)
      escIdx == findTrailingPartialEscape(rawFull)
      raw == IF escIdx # -1 THEN Slice(rawFull, 0, escIdx) ELSE rawFull
      enter == Includes(raw, ALT_1049_H) \/ Includes(raw, ALT_47_H)
      leave == Includes(raw, ALT_1049_L) \/ Includes(raw, ALT_47_L)
      newCwd == extractOsc7Cwd(raw)
  IN [text |-> cleanTerminalOutput(raw),
      st |-> [st EXCEPT
               !.rawBuffer = IF escIdx # -1 THEN SliceFrom(rawFull, escIdx) ELSE <<>>,
               !.fullscreen = IF leave THEN FALSE ELSE IF enter THEN TRUE ELSE @,
               !.cwd = IF newCwd # <<>> /\ newCwd # @ THEN newCwd ELSE @,
               !.fragment = <<>>, !.pos = 0, !.readings = 0]]

\* lines 119-157: what the handler does before its loop, and the text the
\* loop scans
Prepare(st, chunk) ==
  LET rawFull == st.rawBuffer \o decode(chunk)
      escIdx == findTrailingPartialEscape(rawFull)
      raw == IF escIdx # -1 THEN Slice(rawFull, 0, escIdx) ELSE rawFull
      enter == Includes(raw, ALT_1049_H) \/ Includes(raw, ALT_47_H)
      leave == Includes(raw, ALT_1049_L) \/ Includes(raw, ALT_47_L)
      newCwd == extractOsc7Cwd(raw)
  IN [text |-> st.fragment \o cleanTerminalOutput(raw),
      st |-> [st EXCEPT
               !.rawBuffer = IF escIdx # -1 THEN SliceFrom(rawFull, escIdx) ELSE <<>>,
               !.fullscreen = IF leave THEN FALSE ELSE IF enter THEN TRUE ELSE @,
               !.cwd = IF newCwd # <<>> /\ newCwd # @ THEN newCwd ELSE @,
               !.fragment = <<>>, !.pos = 0, !.readings = 0]]

\* the handler on one chunk
onOutput(st, chunk, d1, d2) ==
  LET p == Prepare(st, chunk) IN Scan(p.st, p.text, d1, d2)

\* ---- the streams the view is fed ----
\* the decimal text of an integer (the shell hook's printf of $?)
RECURSIVE NaturalText(_)
NaturalText(n) == IF n < 10 THEN <<48 + n>> ELSE Append(NaturalText(n \div 10), 48 + (n % 10))

DecimalText(n) == IF n < 0 THEN <<45>> \o NaturalText(0 - n) ELSE NaturalText(n)

EndMarker(n) == MARKER_END_PREFIX \o DecimalText(n) \o MARKER_END_SUFFIX

\* START out END exit=n, for each pair <<out, n>> in turn
RECURSIVE PairStream(_)
PairStream(pairs) ==
  IF pairs = <<>> THEN <<>>
  ELSE MARKER_START \o Head(pairs).out \o EndMarker(Head(pairs).exit) \o PairStream(Tail(pairs))

\* a command printing "a b" and succeeding
OnePair == [out |-> <<97, 32, 98>>, exit |-> 0]

\* one command; two commands printing "a" and "b" and exiting with 1 and -1
PairLists ==
  { <<OnePair>>, << [out |-> <<97>>, exit |-> 1], [out |-> <<98>>, exit |-> -1] >> }

\* what may precede a START marker: nothing, "x<", and a colour reset and prompt
Preambles == { <<>>, <<120, 60>>, <<27, 91, 109, 36, 32>> }

\* the first output of the command started: "é" in UTF-8
StartedOutput == <<195, 169>>

StartStream(pre) == pre \o MARKER_START \o StartedOutput

\* OSC 7 broadcasts: the text after "7;", the path it broadcasts and the
\* terminator ("/p"; "file://h/home/u/projects/bt"; "/a%20b")
Osc7Cases ==
  { [body |-> <<47, 112>>, path |-> <<47, 112>>, st |-> FALSE],
    [body |-> <<47, 112>>, path |-> <<47, 112>>, st |-> TRUE],
    [body |-> <<102, 105, 108, 101, 58, 47, 47, 104, 47, 104, 111, 109, 101, 47, 117, 47, 112, 114,
                111, 106, 101, 99, 116, 115, 47, 98, 116>>,
     path |-> <<47, 104, 111, 109, 101, 47, 117, 47, 112, 114, 111, 106, 101, 99, 116, 115, 47, 98, 116>>,
     st |-> FALSE],
    [body |-> <<47, 97, 37, 50, 48, 98>>, path |-> <<47, 97, 32, 98>>, st |-> FALSE] }

Osc7Stream(c) == OSC7_INTRO \o c.body \o (IF c.st THEN <<ESC, 92>> ELSE <<BEL>>)

Streams ==
  {PairStream(<<OnePair>>)} \cup {StartStream(pre) : pre \in Preambles}
    \cup {Osc7Stream(c) : c \in Osc7Cases}

\* the bytes received so far
Fed == IF cuts = <<>> THEN 0 ELSE cuts[Len(cuts)]

\* ---- terminalApi.onOutput delivers the next n bytes of the stream ----
\* a chunk is any non-empty run of the bytes not yet delivered
OnOutput(n) ==
  /\ Fed < Len(stream)
  /\ n \in 1..(Len(stream) - Fed)
  /\ \E p \in {Prepare(ParserState, SubSeq(stream, Fed + 1, Fed + n))} :
     \E st \in {Scan(p.st, p.text, d1, d2) : d1 \in 0..1, d2 \in 0..1} :
       /\ rawBufferRef' = st.rawBuffer
       /\ fragmentRef' = st.fragment
       /\ inBlockRef' = st.inBlock
       /\ activeBlockIdRef' = st.activeId
       /\ activeBlockCommandRef' = st.activeCommand
       /\ cwdRef' = st.cwd
       /\ isFullscreen' = st.fullscreen
       /\ blocks' = st.blocks
       /\ blockContentsRef' = st.contentsRef
       /\ blockContents' = st.contents
       /\ clock' = st.clock
       /\ recorded' = st.recorded
  /\ cuts' = Append(cuts, Fed + n)
  /\ UNCHANGED <<sessions, nextId, sessVars, pumpVars, monPc, outVars, produced, subAt, call, ret, tempFiles, hookVars, stream>>

\* the stream is delivered in at most max chunks: the last chunk allowed
\* takes what is left
WithinFeeds(max, n) == Len(cuts) + 1 < max \/ Fed + n = Len(stream)

\* One terminal view fed one stream, cut into chunks in every way: a
\* command's output and its END marker, a START marker after some text, an
\* OSC 7 broadcast.
InitParse ==
  /\ InitManager
  /\ stream \in Streams
  /\ cuts = <<>>
  /\ ParserReset

NextParse == \E n \in 1..Len(stream) : WithinFeeds(MaxFeeds, n) /\ OnOutput(n)

SpecParse == InitParse /\ [][NextParse]_vars

\* One terminal view fed the output of several commands in a row.
InitPairs ==
  /\ InitManager
  /\ stream \in {PairStream(p) : p \in PairLists}
  /\ cuts = <<>>
  /\ ParserReset

NextPairs == \E n \in 1..Len(stream) : WithinFeeds(MaxPairFeeds, n) /\ OnOutput(n)

SpecPairs == InitPairs /\ [][NextPairs]_vars

\* ---- useBlocks.ts: addBlock ----
\* the command texts submitted through the block input: "cd", "ls"
Commands == { <<99, 100>>, <<108, 115>> }

\* the blocks registered by addBlock so far
Registrations == {i \in 1..Len(blocks) : blocks[i].id[1] = "block"}

\* addBlock(command); d is the advance of Date.now() since its last reading
AddBlock(command, d) ==
  /\ Cardinality(Registrations) < MaxAddBlocks
  /\ clock' = clock + d
  /\ LET newBlock == [id |-> <<"block", clock'>>, command |-> command, cwd |-> cwdRef, exitCode |-> <<>>] IN
     /\ blockContentsRef' = MapSet(blockContentsRef, newBlock.id, <<>>)
     /\ activeBlockIdRef' = newBlock.id
     /\ activeBlockCommandRef' = command
     /\ blocks' = Append(blocks, newBlock)
  /\ UNCHANGED <<rawBufferRef, fragmentRef, inBlockRef, cwdRef, isFullscreen, blockContents, recorded,
                 stream, cuts>>
  /\ UNCHANGED <<sessions, nextId, sessVars, pumpVars, monPc, outVars, produced, subAt, call, ret, tempFiles, hookVars>>

\* a command changing the directory: its output, its END marker and the
\* prompt hook's OSC 7 broadcast of the new directory "/p"
CdStream == PairStream(<<[out |-> <<97>>, exit |-> 0]>>) \o OSC7_INTRO \o <<47, 112, ESC, 92>>

\* an END marker between "x" and "y" with no START before it
EndOnlyStream == <<120>> \o EndMarker(0) \o <<121>>

\* a second START marker while the first command is still printing
DoubleStartStream == MARKER_START \o <<97>> \o MARKER_START \o <<98>>

BlockStreams == {PairStream(<<OnePair>>), CdStream, EndOnlyStream, DoubleStartStream}

\* One terminal view: the user submits commands through the block input
\* while the output of the shell arrives.
InitBlocks ==
  /\ InitManager
  /\ stream \in BlockStreams
  /\ cuts = <<>>
  /\ ParserReset

NextBlocks ==
  \/ \E n \in 1..Len(stream) : WithinFeeds(MaxBlockFeeds, n) /\ OnOutput(n)
  \/ \E command \in Commands, d \in 0..1 : AddBlock(command, d)

SpecBlocks == InitBlocks /\ [][NextBlocks]_vars

\* ---- plain text and escape sequences around the markers ----
\* "x<", START, "ab<<<c<<<BLOCKTERM:Ez" (pieces that look like the beginning
\* of an END marker), END exit=0, "y"
FragmentStream ==
  <<120, 60>> \o MARKER_START
    \o <<97, 98, 60, 60, 60, 99>> \o SubSeq(MARKER_END_PREFIX, 1, 14) \o <<122>>
    \o EndMarker(0) \o <<121>>

\* the window title a prompt sets: OSC 0 ; 24 x "t" BEL
TitleOsc == <<ESC, 93, 48, 59>> \o [i \in 1..24 |-> 116] \o <<BEL>>

\* a hyperlink end, ST-terminated: OSC 8 ; ; ESC \
LinkOsc == <<ESC, 93, 56, 59, 59, ESC, 92>>

\* bold red: CSI 1 ; 31 m
ColourCsi == <<ESC, 91, 49, 59, 51, 49, 109>>

\* a running command printing "a", an escape sequence and "b"
EscapeStream(seq) == MARKER_START \o <<97>> \o seq \o <<98>>

\* a command whose output ends with a colour sequence inside the text of
\* an END marker
CarryStream ==
  MARKER_START \o <<97>> \o SubSeq(MARKER_END_PREFIX, 1, 8) \o ColourCsi
    \o SliceFrom(MARKER_END_PREFIX, 8) \o <<48>> \o MARKER_END_SUFFIX

TextStreams == {FragmentStream, CarryStream} \cup {EscapeStream(seq) : seq \in {TitleOsc, LinkOsc, ColourCsi}}

\* One terminal view fed the output of one command, cut in every way.
InitText ==
  /\ InitManager
  /\ stream \in TextStreams
  /\ cuts = <<>>
  /\ ParserReset

NextText == \E n \in 1..Len(stream) : WithinFeeds(MaxFeeds, n) /\ OnOutput(n)

SpecText == InitText /\ [][NextText]_vars

\* ---- shells.go: the bash/zsh init script at work ----
\* The interactive shell of a session sources the init file and then runs
\* its read-eval loop: the commands of the prompt (precmd), the prompt, a
\* command line.  The innermost shell is the one that reads the terminal.
ExitStatuses == {0, 130}

\* line 44: the OSC 7 broadcast of host "h" and directory "/p"
Osc7Broadcast == OSC7_INTRO \o OSC7_FILE \o <<104>> \o <<47, 112>> \o <<ESC, 92>>

Prints(texts) ==
  /\ Len(printed) + Len(texts) <= MaxPrinted
  /\ printed' = printed \o texts

\* lines 32-33 and 53-74: the session's shell sources the init file
SourceInitFile(sh) ==
  /\ depth = 0
  /\ hooks' = sh
  /\ depth' = 1
  /\ __blockterm_started' = [__blockterm_started EXCEPT ![1] = 0]
  /\ shellPc' = [shellPc EXCEPT ![1] = "precmd"]
  /\ UNCHANGED <<lastStatus, printed>>
  /\ UNCHANGED <<sessions, nextId, sessVars, pumpVars, monPc, outVars, produced, subAt, call, ret, parseVars, tempFiles>>

\* lines 37-45: __blockterm_precmd, run before the prompt is shown (zsh
\* precmd hook, bash PROMPT_COMMAND)
Precmd ==
  /\ depth > 0
  /\ shellPc[depth] = "precmd"
  /\ LET __bt_exit == lastStatus[depth] IN
       IF __blockterm_started[depth] = 1
         THEN /\ Prints(<<EndMarker(__bt_exit), Osc7Broadcast>>)
              /\ __blockterm_started' = [__blockterm_started EXCEPT ![depth] = 0]
         ELSE /\ Prints(<<Osc7Broadcast>>)
              /\ UNCHANGED __blockterm_started
  /\ shellPc' = [shellPc EXCEPT ![depth] = "prompt"]
  /\ UNCHANGED <<hooks, depth, lastStatus>>
  /\ UNCHANGED <<sessions, nextId, sessVars, pumpVars, monPc, outVars, produced, subAt, call, ret, parseVars, tempFiles>>

\* lines 48-51: __blockterm_preexec
Preexec ==
  /\ Prints(<<MARKER_START>>)
  /\ __blockterm_started' = [__blockterm_started EXCEPT ![depth] = 1]

\* line 60: zsh runs the preexec hook when a command line has been read
ZshPreexec ==
  /\ hooks = "zsh" /\ depth > 0
  /\ shellPc[depth] = "prompt"
  /\ Preexec
  /\ shellPc' = [shellPc EXCEPT ![depth] = "command"]
  /\ UNCHANGED <<hooks, depth, lastStatus>>
  /\ UNCHANGED <<sessions, nextId, sessVars, pumpVars, monPc, outVars, produced, subAt, call, ret, parseVars, tempFiles>>

\* lines 67-72: bash runs the DEBUG trap before every simple command: those
\* of a command line, of a pipeline, and of PROMPT_COMMAND
BashDebugTrap ==
  /\ hooks = "bash" /\ depth > 0
  /\ IF __blockterm_started[depth] = 0
       THEN Preexec
       ELSE UNCHANGED <<__blockterm_started, printed>>
  /\ shellPc' = [shellPc EXCEPT ![depth] = IF @ = "prompt" THEN "command" ELSE @]
  /\ UNCHANGED <<hooks, depth, lastStatus>>
  /\ UNCHANGED <<sessions, nextId, sessVars, pumpVars, monPc, outVars, produced, subAt, call, ret, parseVars, tempFiles>>

\* an empty command line: the shell goes back to its prompt commands
EmptyLine ==
  /\ depth > 0
  /\ shellPc[depth] = "prompt"
  /\ shellPc' = [shellPc EXCEPT ![depth] = "precmd"]
  /\ UNCHANGED <<hooks, depth, __blockterm_started, lastStatus, printed>>
  /\ UNCHANGED <<sessions, nextId, sessVars, pumpVars, monPc, outVars, produced, subAt, call, ret, parseVars, tempFiles>>

\* the command line has run: $? is its exit status
CommandDone(status) ==
  /\ depth > 0
  /\ shellPc[depth] = "command"
  /\ lastStatus' = [lastStatus EXCEPT ![depth] = status]
  /\ shellPc' = [shellPc EXCEPT ![depth] = "precmd"]
  /\ UNCHANGED <<hooks, depth, __blockterm_started, printed>>
  /\ UNCHANGED <<sessions, nextId, sessVars, pumpVars, monPc, outVars, produced, subAt, call, ret, parseVars, tempFiles>>

\* line 214 of prepareShellCommand: ZDOTDIR is in the environment of the
\* session's zsh, so a zsh started from its command line sources the same
\* .zshrc and runs the hooks with a flag of its own
ZshNested ==
  /\ hooks = "zsh" /\ depth > 0 /\ depth < MaxShells
  /\ shellPc[depth] = "command"
  /\ depth' = depth + 1
  /\ __blockterm_started' = [__blockterm_started EXCEPT ![depth + 1] = 0]
  /\ shellPc' = [shellPc EXCEPT ![depth + 1] = "precmd"]
  /\ UNCHANGED <<hooks, lastStatus, printed>>
  /\ UNCHANGED <<sessions, nextId, sessVars, pumpVars, monPc, outVars, produced, subAt, call, ret, parseVars, tempFiles>>

\* the nested shell exits (end of input at its prompt, or the exit command)
NestedExit ==
  /\ depth > 1
  /\ shellPc[depth] \in {"prompt", "command"}
  /\ depth' = depth - 1
  /\ shellPc' = [shellPc EXCEPT ![depth] = "none"]
  /\ UNCHANGED <<hooks, __blockterm_started, lastStatus, printed>>
  /\ UNCHANGED <<sessions, nextId, sessVars, pumpVars, monPc, outVars, produced, subAt, call, ret, parseVars, tempFiles>>

NextHooks ==
  \/ \E sh \in {"bash", "zsh"} : SourceInitFile(sh)
  \/ Precmd
  \/ ZshPreexec
  \/ BashDebugTrap
  \/ EmptyLine
  \/ \E status \in ExitStatuses : CommandDone(status)
  \/ ZshNested
  \/ NestedExit

SpecHooks == Init /\ [][NextHooks]_vars

\* ---- full-screen programs ----
\* a full-screen program is started and left (vim, then :q)
EnterLeaveStream == ALT_1049_H \o <<118>> \o ALT_1049_L

\* one full-screen program is left and the next one started at once
LeaveEnterStream == ALT_47_H \o <<118>> \o ALT_47_L \o ALT_1049_H

ScreenStreams == {EnterLeaveStream, LeaveEnterStream}

\* One terminal view fed the output of full-screen programs.
InitScreen ==
  /\ InitManager
  /\ stream \in ScreenStreams
  /\ cuts = <<>>
  /\ ParserReset

NextScreen == \E n \in 1..Len(stream) : WithinFeeds(MaxFeeds, n) /\ OnOutput(n)

SpecScreen == InitScreen /\ [][NextScreen]_vars

\* ---- properties of the session manager ----
Born(s) == State[s] # "unborn"

\* a CloseSession of s (direct or from Manager.Close) is between its two
\* critical sections
ClosingInFlight(s) ==
  \E c \in Callers : call[c].id = s /\ call[c].pc \in {"locked", "closing"}
                     /\ call[c].op \in {"CloseSession", "Close"}

\* C1: a CloseSession(id) issued when the session is already Closed returns
\* success and closes no pty, kills no process and runs no cleanup closure.
C1_SecondCloseIsNoOp ==
  [][(ret'.op = "CloseSession" /\ State[ret'.id] = StateClosed)
       => (ret'.res = "ok" /\ ret'.fx = {} /\ UNCHANGED <<ptyCloses, kills, cleanups>>)]_vars

\* C2: the pty of a session is closed at most once and its cleanup closure
\* runs at most once, and once the session has left the live table (no
\* CloseSession of it still in flight) each has happened exactly once.
C2_ReleasedExactlyOnce ==
  \A s \in SessionIds :
    Born(s) =>
      /\ ptyCloses[s] <= 1
      /\ cleanups[s] <= 1
      /\ (s \notin sessions /\ ~ClosingInFlight(s))
            => (ptyCloses[s] = 1 /\ (initCleanup[s] => cleanups[s] = 1))

\* C3: the PTY field of a session is non-nil iff its state is Running.
C3_PtyNonNilIffRunning ==
  \A s \in SessionIds : Born(s) => (PTY[s] # "nil" <=> State[s] = StateRunning)

\* C4: the state of a session changes only Running -> Exited (by the exit
\* watcher), Running -> Closed and Exited -> Closed (by CloseSession), after
\* its creation as Running; nothing leaves Closed.
C4_Transitions ==
  [][\A s \in SessionIds :
       State'[s] # State[s] =>
         \/ State[s] = "unborn" /\ State'[s] = StateRunning /\ ret'.op = "StartSession"
         \/ State[s] = StateRunning /\ State'[s] = StateExited /\ monPc[s] = "wait" /\ monPc'[s] = "delete"
         \/ State[s] \in {StateRunning, StateExited} /\ State'[s] = StateClosed /\ ClosingInFlight(s)]_vars

\* the watcher marked the session Exited, then the CloseSession that had
\* already taken it out of the table marked it Closed
C4_Witness ==
  \E s \in SessionIds :
    /\ State[s] = StateClosed /\ monPc[s] = "done"
    /\ ret.op = "CloseSession" /\ ret.id = s /\ ret.at = "locked"

\* C5: once the child has exited and the watcher has run, GetSession(id)
\* still finds the session (state Exited) as long as no CloseSession(id) has
\* been issued.
C5_ExitedStillQueryable ==
  [][(ret'.op = "GetSession" /\ State[ret'.id] = StateExited /\ monPc[ret'.id] = "done"
        /\ ~ClosingInFlight(ret'.id))
       => ret'.res = "ok"]_vars

\* C6: a WriteInput or ResizeSession that finds the session absent, or finds
\* its state not Running when it holds the session lock (whatever the state
\* was at its lookup), returns an error, writes nothing to the pty, issues no
\* resize and leaves Cols and Rows as they were.
C6_RejectedUnlessRunning ==
  [][(/\ ret'.op \in {"WriteInput", "ResizeSession"}
      /\ \/ ret'.at = "lookup" /\ ret'.id \notin sessions
         \/ ret'.at = "locked" /\ State[ret'.id] # StateRunning)
       => (ret'.res = "err" /\ ret'.fx = {} /\ UNCHANGED <<Cols, Rows>>)]_vars

\* a resize that looked the session up while it was live was rejected under
\* the session lock because the session had been closed in between; the
\* session still has the size it was started with
C6_Witness ==
  /\ ret.op = "ResizeSession" /\ ret.at = "locked" /\ ret.res = "err"
  /\ State[ret.id] = StateClosed
  /\ Cols[ret.id] = 1 /\ Rows[ret.id] = 1

\* C7: StartSession with cols <= 0 or rows <= 0 returns an error before the
\* injector runs, before a temporary file or a pty exists, and registers
\* nothing.
C7_RejectsNonPositiveSize ==
  [][(ret'.op = "StartSession" /\ (ret'.cols <= 0 \/ ret'.rows <= 0))
       => (ret'.res = "err" /\ ret'.fx = {} /\ UNCHANGED <<sessions, nextId>>)]_vars

\* C8: a StartSession that returns an error leaves the table as it was,
\* starts no pump and no watcher, and makes no id resolvable.
C8_FailedStartRegistersNothing ==
  [][(ret'.op = "StartSession" /\ ret'.res = "err")
       => (/\ UNCHANGED <<sessions, nextId, State, pumpPc, monPc>>
           /\ "registered" \notin ret'.fx)]_vars

\* a start failed at the pty after the injector had written its script
C8_Witness ==
  ret.op = "StartSession" /\ ret.res = "err" /\ {"injector", "temp"} \subseteq ret.fx

C10_OutputOrder ==
  \A s \in SessionIds : \A w \in Writers :
    Pos(s, w) > 0 =>
      /\ \A i \in 1..Len(recv[w]) : recv[w][i] \in 1..nread[s]
      /\ \A i \in 1..(Len(recv[w]) - 1) : recv[w][i + 1] = recv[w][i] + 1
      /\ \A v \in Writers :
           (0 < Pos(s, v) /\ Pos(s, v) < Pos(s, w) /\ ~sinkClosed[v])
             => \A i \in 1..Len(recv[w]) : \E j \in 1..Len(recv[v]) : recv[v][j] = recv[w][i]

\* two subscribers of one session, the second subscribed one chunk later,
\* with a WriteInput returning while the pump is mid fan-out
C10_Witness ==
  \E s \in SessionIds :
    /\ Len(readers[s]) = 2
    /\ Len(recv[readers[s][1]]) = 2
    /\ recv[readers[s][2]] = <<2>>

\* C11: when the pump of a session that was never explicitly closed has
\* stopped, every open subscriber has been written every chunk the child
\* produced that had not been read before it subscribed, the output the
\* child wrote just before exiting included.
C11_NoChunkDropped ==
  \A s \in SessionIds : \A w \in Writers :
    (/\ Born(s) /\ State[s] # StateClosed /\ ~ClosingInFlight(s)
     /\ Pos(s, w) > 0 /\ ~sinkClosed[w]
     /\ pumpPc[s] = "stopped")
      => \A k \in (subAt[w] + 1)..produced[s] : \E i \in 1..Len(recv[w]) : recv[w][i] = k

\* the chunks an open subscriber w of s must have been written by now: the
\* ones read since it subscribed, less the one whose fan-out has not reached it
Due(s, w) ==
  IF pumpPc[s] = "bcast" /\ pumpIdx[s] <= Pos(s, w) THEN nread[s] - 1 ELSE nread[s]

\* C12: subscriber writes that fail never stop the pump, which stops only at
\* its loop head or on a read error, and never cost another subscriber a
\* chunk: every open subscriber has exactly the chunks read since it
\* subscribed, whatever happened to the sinks before it in the list.
C12_FailedWriteIsolated ==
  \A s \in SessionIds :
    Born(s) =>
      /\ pumpPc[s] = "stopped" => (State[s] # StateRunning \/ ptyCloses[s] > 0 \/ ~procAlive[s])
      /\ \A w \in Writers :
           (Pos(s, w) > 0 /\ ~sinkClosed[w]) =>
              /\ Len(recv[w]) = Due(s, w) - subAt[w]
              /\ \A i \in 1..Len(recv[w]) : recv[w][i] = subAt[w] + i

\* the first subscriber's sink was closed after chunk 1; the second, behind
\* it in the list, was still written chunk 2
C12_Witness ==
  \E s \in SessionIds :
    /\ Len(readers[s]) = 2
    /\ sinkClosed[readers[s][1]] /\ recv[readers[s][1]] = <<1>>
    /\ ~sinkClosed[readers[s][2]] /\ recv[readers[s][2]] = <<1, 2>>

\* the pump of session a is inside a subscriber write, which it may never
\* leave: it holds a's outputMu.RLock and no other lock
InSubscriberWrite(a) == pumpPc[a] = "bcast" /\ pumpIdx[a] <= Len(readers[a])

C15_CloseAllReleasesAll ==
  [][\A c \in Callers :
       (call[c].op = "Close" /\ call[c].pc = "iter" /\ call'[c].pc = "idle")
         => /\ ret'.op = "Close" /\ ret'.res = "ok"
            /\ \A s \in call[c].snap :
                 /\ s \notin sessions'
                 /\ ~ClosingInFlight(s) =>
                      (ptyCloses'[s] >= 1 /\ (initCleanup[s] => cleanups'[s] >= 1))]_vars

\* ---- properties of the block parser ----
\* blockData and the tracked cwd: what the view shows of a parser state
View(st) ==
  [blocks |-> [i \in 1..Len(st.blocks) |->
                 [command |-> st.blocks[i].command,
                  output |-> MapGet(st.contents, st.blocks[i].id),
                  exitCode |-> st.blocks[i].exitCode]],
   cwd |-> st.cwd]

\* the output blockData shows for the i-th block
Output(i) == MapGet(blockContents, blocks[i].id)

\* C16: once the whole stream has been received, the blocks (command,
\* output, exit code) and the tracked cwd are those the parser has after
\* receiving the stream as a single chunk, however the stream was cut.
C16_ChunkingInvariance ==
  Fed = Len(stream) => View(ParserState) = View(onOutput(ResetState, stream, 1, 1))

\* C17: a stream of START out END exit=n pairs received as one chunk leaves
\* one block per pair, in order, each closed with the exit code n of its
\* pair (negative ones included) and with the text out as its output.
C17_OneBlockPerPair ==
  \A p \in PairLists :
    (stream = PairStream(p) /\ cuts = <<Len(stream)>>) =>
      /\ Len(blocks) = Len(p)
      /\ \A i \in 1..Len(p) : blocks[i].exitCode = <<p[i].exit>> /\ Output(i) = p[i].out

\* the offset of the END marker in the stream of one pair
EndMarkerOffset == Len(MARKER_START) + Len(OnePair.out)

\* C18: when the END marker of the running command is cut in two at any of
\* its inner offsets, the second chunk closes the block with exit code 0 and
\* the block's output is the command's output alone.
C18_SplitEndMarker ==
  (/\ stream = PairStream(<<OnePair>>)
   /\ Len(cuts) = 2 /\ cuts[1] > EndMarkerOffset /\ cuts[2] = Len(stream))
    => /\ Len(blocks) = 1
       /\ blocks[1].exitCode = <<0>>
       /\ Output(1) = OnePair.out

\* C19: however a stream with one START marker is cut, the marker's cuts
\* included, no block exists before the last character of the marker
\* has been received and exactly one exists from then on, open and active,
\* with no character of the marker in its output.
C19_SplitStartMarker ==
  \A pre \in Preambles :
    stream = StartStream(pre) =>
      IF Fed < Len(pre) + Len(MARKER_START)
        THEN blocks = <<>> /\ ~inBlockRef /\ activeBlockIdRef = <<>>
        ELSE /\ Len(blocks) = 1 /\ inBlockRef /\ activeBlockIdRef = blocks[1].id
             /\ blocks[1].exitCode = <<>>
             /\ \A i \in 1..Len(Output(1)) : \A j \in 1..Len(MARKER_START) : Output(1)[i] # MARKER_START[j]

\* the marker after "x<" arrived in three pieces, the third chunk ending
\* the stream
C19_Witness ==
  /\ stream = StartStream(<<120, 60>>)
  /\ Len(cuts) = 3
  /\ 2 < cuts[1] /\ cuts[2] < 2 + Len(MARKER_START)
  /\ Len(blocks) = 1 /\ inBlockRef

\* C20: however an OSC 7 broadcast is cut, the tracked cwd is the initial
\* one until the whole sequence has been received and the broadcast path
\* from then on.
C20_SplitOsc7 ==
  \A c \in Osc7Cases :
    stream = Osc7Stream(c) =>
      cwdRef = (IF Fed < Len(stream) THEN currentPath ELSE c.path)

\* the offset after the first START marker of the stream, -1 if it has none
FirstStartEnd ==
  IF IndexOf(stream, MARKER_START, 0) = -1 THEN -1
  ELSE IndexOf(stream, MARKER_START, 0) + Len(MARKER_START)

\* this step receives the last character of the first START marker
ParsesStart == FirstStartEnd # -1 /\ Fed < FirstStartEnd /\ Fed' >= FirstStartEnd

\* C21: the chunk that completes a START marker while no block is active
\* activates the pending block registered by addBlock, if there is one, and
\* adds no block; otherwise it appends exactly one auto-detected block with
\* an empty command and the tracked cwd, and that block is the active one.
C21_StartActivatesPendingOrAuto ==
  [][ParsesStart =>
       IF activeBlockIdRef # <<>>
         THEN /\ Len(blocks') = Len(blocks)
              /\ \A i \in 1..Len(blocks) : blocks'[i].id = blocks[i].id /\ blocks'[i].command = blocks[i].command
              /\ inBlockRef' => activeBlockIdRef' = activeBlockIdRef
              /\ ~inBlockRef' => \E i \in 1..Len(blocks) : blocks[i].id = activeBlockIdRef /\ blocks'[i].exitCode # <<>>
         ELSE /\ Len(blocks') = Len(blocks) + 1
              /\ SubSeq(blocks', 1, Len(blocks)) = blocks
              /\ LET b == blocks'[Len(blocks')] IN
                 /\ b.id[1] = "block-auto" /\ b.command = <<>> /\ b.cwd = cwdRef'
                 /\ inBlockRef' => activeBlockIdRef' = b.id /\ b.exitCode = <<>>
                 /\ ~inBlockRef' => b.exitCode # <<>>]_vars

\* the block registered for "cd" is the only block, is active and has
\* received the command's output
C21_Witness ==
  /\ Len(blocks) = 1 /\ blocks[1].id[1] = "block" /\ blocks[1].command = <<99, 100>>
  /\ inBlockRef /\ activeBlockIdRef = blocks[1].id
  /\ Output(1) = <<97>>

\* C22: while the view receives a stream whose END marker has no START
\* before it, no chunk changes the block list, an output, an exit code,
\* inBlock, the pending block or the history records.
C22_EndOutsideBlockIsNoOp ==
  [][(stream = EndOnlyStream /\ Fed' # Fed) =>
       UNCHANGED <<blocks, blockContents, blockContentsRef, inBlockRef, activeBlockIdRef,
                   activeBlockCommandRef, recorded>>]_vars

\* the END marker arrived in two pieces while the block registered for
\* "ls" was pending
C22_Witness ==
  /\ stream = EndOnlyStream /\ Len(cuts) = 2 /\ cuts[1] \in 2..(Len(stream) - 2) /\ Fed = Len(stream)
  /\ Len(blocks) = 1 /\ blocks[1].command = <<108, 115>> /\ blocks[1].exitCode = <<>>
  /\ activeBlockIdRef = blocks[1].id /\ ~inBlockRef /\ recorded = <<>>

\* C23: once "START a START b" has been received (no addBlock call), the
\* first block is still open with output "a", and a second block is open
\* and active with output "b": the second marker's text is in no output.
C23_SecondStartOpensFreshBlock ==
  (stream = DoubleStartStream /\ Fed = Len(stream) /\ Registrations = {}) =>
    /\ Len(blocks) = 2
    /\ blocks[1].exitCode = <<>> /\ Output(1) = <<97>>
    /\ blocks[2].exitCode = <<>> /\ Output(2) = <<98>>
    /\ inBlockRef /\ activeBlockIdRef = blocks[2].id

\* a block is closed by this step: its exit code goes from null to a number
Closes(i) ==
  /\ i \in 1..Len(blocks')
  /\ blocks'[i].exitCode # <<>>
  /\ i <= Len(blocks) => blocks[i].exitCode = <<>>

\* C24: every step that closes a block, auto-detected or registered by
\* addBlock, adds exactly one record to the history, with the exit code of
\* the END marker.
C24_EveryCloseIsRecorded ==
  [][\A i \in 1..Len(blocks') :
       Closes(i) => /\ Len(recorded') = Len(recorded) + 1
                    /\ <<recorded'[Len(recorded')].exitCode>> = blocks'[i].exitCode]_vars

\* C25: the record added when a block is closed carries the cwd the block
\* was created with.
C25_RecordCarriesCreationCwd ==
  [][\A i \in 1..Len(blocks') :
       (Closes(i) /\ Len(recorded') = Len(recorded) + 1)
         => recorded'[Len(recorded')].cwd = blocks'[i].cwd]_vars

\* ---- properties of the shell injector ----
\* C26: a call of prepareShellCommand with a path whose base name is none
\* of bash, zsh, pwsh, powershell returns the path as given, nil args, a
\* nil cleanup and no error, and creates nothing under the temp directory.
C26_UnknownShellPassthrough ==
  [][(ret'.op = "prepareShellCommand" /\ Base(ret'.shell) \notin {"bash", "zsh", "pwsh", "powershell"})
       => /\ ret'.path = ret'.shell /\ ret'.args = <<>>
          /\ ret'.cleanup.nil /\ ~ret'.err
          /\ tempFiles' = tempFiles]_vars

\* /usr/bin/fish has been prepared while the files of an earlier zsh are
\* still there
C26_Witness ==
  /\ ret.op = "prepareShellCommand" /\ ret.shell = <<"usr", "bin", "fish">>
  /\ ret.path = <<"usr", "bin", "fish">>
  /\ TempName("blockterm-zdotdir-*", 1) \in tempFiles

\* ---- properties of the block parser and addBlock ----
\* C27: an addBlock call made while a block is active leaves that block
\* the active one, so that the rest of the output and the exit code of the
\* END marker still go to the block activated at the START marker.
C27_AddBlockKeepsActiveBlock ==
  [][(inBlockRef /\ Registrations' # Registrations)
       => activeBlockIdRef' = activeBlockIdRef /\ activeBlockCommandRef' = activeBlockCommandRef]_vars

\* s is a prefix of t
IsPrefix(s, t) == Len(s) <= Len(t) /\ SubSeq(t, 1, Len(s)) = s

\* C28: in every step each block keeps its place in the list and its output
\* before the step is a prefix of its output after it; a closed block's
\* output and exit code are the same after the step.
C28_OutputAppendOnly ==
  [][\A i \in 1..Len(blocks) :
       /\ i <= Len(blocks') /\ blocks'[i].id = blocks[i].id
       /\ IsPrefix(Output(i), Output(i)')
       /\ blocks[i].exitCode # <<>> => Output(i)' = Output(i) /\ blocks'[i].exitCode = blocks[i].exitCode]_vars

\* the text the handler scans in this step of FragmentStream, which has no
\* escape sequence: the held-back fragment and the cleaned chunk
Scanned == fragmentRef \o cleanTerminalOutput(SubSeq(stream, Fed + 1, Fed'))

\* C29: in every step of the stream with the false END prefixes, the text
\* scanned while no block is active goes to no block, and the text scanned
\* while the block is active is, in order and once, in the block's output
\* or in the fragment held back: what follows the START marker, what
\* precedes the END marker, and everything in between.
C29_TextAccountedOnce ==
  [][(stream = FragmentStream /\ Fed' # Fed) =>
       \E scanned \in {Scanned} :
         IF inBlockRef
           THEN IF inBlockRef'
                  THEN Len(blocks') = 1 /\ Output(1)' \o fragmentRef' = Output(1) \o scanned
                  ELSE \E endIdx \in {EndMarkerExec(scanned).index} :
                         /\ Len(blocks') = 1 /\ endIdx # -1
                         /\ Output(1)' = Output(1) \o Slice(scanned, 0, endIdx)
           ELSE IF Len(blocks') = Len(blocks)
                  THEN ~inBlockRef' /\ \A i \in 1..Len(blocks) : Output(i)' = Output(i)
                  ELSE \E startIdx \in {IndexOf(scanned, MARKER_START, 0)} :
                         /\ Len(blocks') = 1 /\ startIdx # -1
                         /\ IF inBlockRef'
                              THEN Output(1)' \o fragmentRef' = SliceFrom(scanned, startIdx + Len(MARKER_START))
                              ELSE \E endIdx \in {EndMarkerExec(scanned).index} :
                                     /\ endIdx # -1
                                     /\ Output(1)' = Slice(scanned, startIdx + Len(MARKER_START), endIdx)]_vars

\* "<<<BLOCKTERM:E" ended the first chunk and was held back; the next chunk
\* began with "z" and the held-back text is in the output
C29_Witness ==
  /\ stream = FragmentStream /\ Len(cuts) = 2 /\ cuts[1] = 43 /\ cuts[2] \in 44..45
  /\ inBlockRef /\ fragmentRef = <<>>
  /\ Output(1) = <<97, 98, 60, 60, 60, 99>> \o SubSeq(MARKER_END_PREFIX, 1, 14) \o <<122>>

\* C30: however the output "a", escape sequence, "b" of a running command
\* is cut, the block's output holds only characters of "a" and "b": no
\* character of the CSI or OSC sequence.
C30_NoEscapeCharacterInOutput ==
  \A seq \in {TitleOsc, LinkOsc, ColourCsi} :
    stream = EscapeStream(seq) =>
      \A i \in 1..Len(blocks) : \A j \in 1..Len(Output(i)) : Output(i)[j] \in {97, 98}

\* the offsets in s of the alternate-screen sequences of a family
AltScreenAt(s, family) == {p \in 0..(Len(s) - 1) : \E seq \in family : HasAt(s, p, seq)}

\* the most recent alternate-screen sequence of s is an enter
LastAltScreenIsEnter(s) ==
  LET enters == AltScreenAt(s, {ALT_1049_H, ALT_47_H})
      leaves == AltScreenAt(s, {ALT_1049_L, ALT_47_L})
  IN enters # {} /\ (leaves = {} \/ MaxOf(enters) > MaxOf(leaves))

\* C31: after any sequence of chunks the fullscreen flag is true exactly
\* when the most recent alternate-screen sequence received so far was an
\* enter (h) and not an exit (l).
C31_FullscreenFollowsLastSequence ==
  isFullscreen = LastAltScreenIsEnter(SubSeq(stream, 1, Fed))

\* ---- properties of the shell hooks ----
IsEndMarker(text) == \E n \in ExitStatuses : text = EndMarker(n)

\* the markers among the texts printed on the pty
Markers == SelectSeq(printed, LAMBDA text : text = MARKER_START \/ IsEndMarker(text))

\* C32: the markers the hooks print alternate, beginning with START: a START
\* is never followed by a START and an END is printed only after a START
\* that no END has followed.
C32_MarkersAlternate ==
  \A i \in 1..Len(Markers) :
    IF i % 2 = 1 THEN Markers[i] = MARKER_START ELSE IsEndMarker(Markers[i])

\* ---- properties of block identity ----
\* C33: no two blocks of the block list share an id.
C33_BlockIdsUnique ==
  \A i, j \in 1..Len(blocks) : i # j => blocks[i].id # blocks[j].id

\* ---- properties of the session manager: descriptors, table, size ----
\* C34: a WriteInput or ResizeSession that takes the session lock after the
\* pty descriptor of its session has been closed performs no write and no
\* size ioctl on it, however the calls interleave.
C34_NoPtyUseAfterClose ==
  [][(ret'.op \in {"WriteInput", "ResizeSession"} /\ ret'.at = "locked" /\ ptyCloses[ret'.id] > 0)
       => ret'.fx \cap {"write", "ioctl"} = {}]_vars

\* a WriteInput that found the session in the table took the session lock
\* after a concurrent CloseSession had closed the pty, and wrote nothing
C34_Witness ==
  /\ ret.op = "WriteInput" /\ ret.at = "locked" /\ ret.res = "err" /\ ret.fx = {}
  /\ ptyCloses[ret.id] = 1 /\ State[ret.id] = StateClosed

\* C35: the live table holds no session whose state is Closed, and a
\* GetSession that returns a session returns one that is not Closed.
C35_NoClosedSessionInTable ==
  /\ \A s \in sessions : State[s] # StateClosed
  /\ (ret.op = "GetSession" /\ ret.res = "ok") => State[ret.id] # StateClosed

\* GetSession asked for a session that CloseSession had closed and did not
\* find it
C35_Witness ==
  /\ ret.op = "GetSession" /\ ret.res = "err"
  /\ State[ret.id] = StateClosed /\ ret.id \notin sessions

\* C36: a ResizeSession that returns an error leaves the stored Cols and
\* Rows of every session as they were before the call.
C36_FailedResizeKeepsSize ==
  [][(ret'.op = "ResizeSession" /\ ret'.res = "err") => UNCHANGED <<Cols, Rows>>]_vars

\* C37: a StartSession that returns an error after the injector has made its
\* temporary file has run the injector's cleanup closure before it returns.
C37_FailedStartRunsCleanup ==
  [][(ret'.op = "StartSession" /\ ret'.res = "err" /\ "temp" \in ret'.fx) => "cleanup" \in ret'.fx]_vars

\* ---- properties of the subscribers ----
\* C38: a sink whose output stream has ended (its owner has closed it and
\* returns) is in no session's subscriber list.
C38_EndedStreamIsUnsubscribed ==
  \A w \in Writers : sinkClosed[w] => ~Registered(w)

\* ---- properties of the parser's carried-over state ----
IsProperPrefix(s, t) == Len(s) < Len(t) /\ SubSeq(t, 1, Len(s)) = s

\* C39: after every chunk the pending escape fragment is at most 20
\* characters long and, if not empty, begins with ESC; the pending marker
\* fragment is a proper prefix of the START token outside a block and of
\* the END prefix inside one.
C39_CarriedStateBounded ==
  /\ Len(rawBufferRef) <= 20
  /\ rawBufferRef # <<>> => rawBufferRef[1] = ESC
  /\ IsProperPrefix(fragmentRef, IF inBlockRef THEN MARKER_END_PREFIX ELSE MARKER_START)

\* a chunk ended inside a colour sequence that follows "<<<BLOCK": both
\* fragments are held back
C39_Witness ==
  /\ inBlockRef
  /\ fragmentRef = SubSeq(MARKER_END_PREFIX, 1, 8)
  /\ rawBufferRef = SubSeq(ColourCsi, 1, 3)
====
